---- MODULE Spec2Model ----
(***************************************************************************)
(* File upload/download portal: the persistent Local Index                 *)
(* (localStorage key 'uploaded-files'), its expiry sweep, the index         *)
(* reconciliation (mergeFileLists) and the cloud-first FileManager.         *)
(*                                                                         *)
(* A FileInfo record is modelled by the fields the code decides on:        *)
(*   id          the record's identifier                                    *)
(*   uploadTime  new Date(uploadTime).getTime(), in clock ticks             *)
(*   expiresAt   new Date(expiresAt).getTime(), in clock ticks; 0 stands    *)
(*               for a missing (falsy) expiresAt of legacy data             *)
(*   ver         the remaining payload (fileName, fileSize, cloudinaryUrl,  *)
(*               fileType, publicId) taken as one value                     *)
(*   wf          whether id, fileName and cloudinaryUrl are strings, i.e.   *)
(*               whether the entry passes the read-time validation          *)
(* One clock tick is 24 hours, so the 24 hour retention is Day = 1 tick.    *)
(***************************************************************************)
EXTENDS Integers, Sequences, FiniteSets, TLC

VARIABLES
    storage,    \* localStorage['uploaded-files'], parsed: a sequence of entries
    now,        \* the wall clock, new Date().getTime()
    last,       \* the last call of the storage API: its arguments and results
    files,      \* FileManager's React state `files` (the displayed list)
    cloud,      \* the resources the remote list endpoint serves
    loads,      \* number of loadFiles calls in flight (awaiting the network)
    attempts,   \* per id: deleteFileFromCloudinary calls issued by expiry sweeps
    removed,    \* ids removed by handleDeleteFile / handleBatchDelete
    listA,      \* mergeFileLists: first argument
    listB,      \* mergeFileLists: second argument
    merged,     \* mergeFileLists: <<"none">> or <<"done", merge(A,B), merge(B,A)>>
    args,       \* the arguments of the function or handler under check
    result      \* <<"none">>, or <<"done", ...>> with what it returned

vars == <<storage, now, last, files, cloud, loads, attempts, removed,
          listA, listB, merged, args, result>>

storageVars == <<storage, now, last>>
appVars == <<files, cloud, loads, attempts, removed>>
mergeVars == <<listA, listB, merged>>
callVars == <<args, result>>

----------------------------------------------------------------------------
(* Bounds of the model *)

MaxTime == 2
MaxLen == 2
MaxMergeLen == 2
MaxImportLen == 2
MaxCloudLen == 2
MaxLoads == 2
MaxBatchLen == 7
MaxProgress == 2
MaxUploadLen == 2
MaxFilterLen == 2
MaxShareLen == 2
MaxDeleteCalls == 2
MaxAttempts == 2
MaxSeconds == 3
MaxRequests == 3
MaxSyncLen == 1
MaxSyncTicks == 3

(* 24 * 60 * 60 * 1000 ms: the clock ticks in days *)
Day == 1

(* maxFileSize={50} (MB): file sizes are 1, 2 and, over the limit, 3 *)
maxFileSize == 2

Ids == {"a", "b"}
Vers == {1, 2}

----------------------------------------------------------------------------
(* Records and lists *)

Rec(id, up, exp, ver, wf) ==
    [id |-> id, uploadTime |-> up, expiresAt |-> exp, ver |-> ver, wf |-> wf]

NoRec == Rec("none", 0, 0, 0, FALSE)

IdsOf(s) == {s[i].id : i \in DOMAIN s}

UniqueIds(s) == \A i, j \in DOMAIN s : s[i].id = s[j].id => i = j

MapSeq(s, F(_)) == [i \in DOMAIN s |-> F(s[i])]

SeqsUpTo(S, n) == UNION {[1..k -> S] : k \in 0..n}

\* IsSubseq(s, t): s is obtained from t by dropping entries (order kept).
RECURSIVE IsSubseq(_, _)
IsSubseq(s, t) ==
    IF s = <<>> THEN TRUE
    ELSE IF t = <<>> THEN FALSE
    ELSE IF Head(s) = Head(t) THEN IsSubseq(Tail(s), Tail(t))
    ELSE IsSubseq(s, Tail(t))

\* files.findIndex(file => file.id === id): 0 stands for -1
FindIndex(s, id) ==
    IF \E i \in DOMAIN s : s[i].id = id
    THEN CHOOSE i \in DOMAIN s :
            s[i].id = id /\ \A j \in DOMAIN s : s[j].id = id => i <= j
    ELSE 0

----------------------------------------------------------------------------
(* src/lib/utils.ts: the Local Index *)

\* typeof file.id === 'string' && typeof file.fileName === 'string' && ...
IsValidEntry(r) == r.wf

\* if (!file.expiresAt) file.expiresAt = new Date(now + 24h).toISOString()
Backfill(r, t) == IF r.expiresAt = 0 THEN [r EXCEPT !.expiresAt = t + Day] ELSE r

\* Mutants of IsExpired: a record expires one tick late; one tick early.
IsExpired_Late(r, t) == t > r.expiresAt

IsExpired_Early(r, t) == t + Day >= r.expiresAt

\* if (now >= expiryTime)
IsExpired(r, t) == t >= r.expiresAt

\* cleanupExpiredFilesSync(files) at time t; ok: whether localStorage.setItem
\* succeeds.  valid: the returned list; expired: the entries for which
\* deleteFileFromCloudinary is called; store: the persisted value afterwards.
cleanupExpiredFilesSync(store, fs, t, ok) ==
    LET filled == MapSeq(fs, LAMBDA r : Backfill(r, t))
        valid == SelectSeq(filled, LAMBDA r : ~IsExpired(r, t))
        expired == SelectSeq(filled, LAMBDA r : IsExpired(r, t))
    IN  [valid |-> valid,
         expired |-> expired,
         store |-> IF expired # <<>> /\ ok THEN valid ELSE store]

\* getStoredFiles() at time t
getStoredFiles(store, t, ok) ==
    cleanupExpiredFilesSync(store, SelectSeq(store, IsValidEntry), t, ok)

\* Mutant of saveFileToStorage: the record is written over the index read
\* before the sweep, minus the entries that follow it there.
saveFileToStorage_LostUpdate(store, r, t, sok, wok) ==
    LET g == getStoredFiles(store, t, sok)
    IN  [store |-> IF wok THEN <<r>> ELSE g.store,
         raised |-> ~wok,
         expired |-> g.expired]

\* Mutant of saveFileToStorage: a failed write is logged, not thrown.
saveFileToStorage_Swallowed(store, r, t, sok, wok) ==
    LET g == getStoredFiles(store, t, sok)
        fs == g.valid
        existingIndex == FindIndex(fs, r.id)
        newFiles == IF existingIndex > 0
                    THEN [fs EXCEPT ![existingIndex] = r]
                    ELSE Append(fs, r)
    IN  [store |-> IF wok THEN newFiles ELSE g.store,
         raised |-> FALSE,
         expired |-> g.expired]

\* saveFileToStorage(fileInfo) at time t; sok, wok: whether the sweep's and
\* the function's own localStorage.setItem succeed.
saveFileToStorage(store, r, t, sok, wok) ==
    LET g == getStoredFiles(store, t, sok)
        fs == g.valid
        existingIndex == FindIndex(fs, r.id)
        newFiles == IF existingIndex > 0
                    THEN [fs EXCEPT ![existingIndex] = r]
                    ELSE Append(fs, r)
    IN  [store |-> IF wok THEN newFiles ELSE g.store,
         raised |-> ~wok,
         expired |-> g.expired]

\* deleteFileFromStorage(fileId): writes only when an entry was removed
deleteFileFromStorage(store, id, t, sok, wok) ==
    LET g == getStoredFiles(store, t, sok)
        fs == g.valid
        updatedFiles == SelectSeq(fs, LAMBDA f : f.id # id)
        writes == Len(updatedFiles) # Len(fs)
    IN  [store |-> IF writes /\ wok THEN updatedFiles ELSE g.store,
         raised |-> writes /\ ~wok,
         expired |-> g.expired]

\* Mutant of batchDeleteFilesFromStorage: keeps the named ids, drops the others.
batchDeleteFilesFromStorage_Inverted(store, ids, t, sok, wok) ==
    LET g == getStoredFiles(store, t, sok)
    IN  [store |-> IF wok THEN SelectSeq(g.valid, LAMBDA f : f.id \in ids)
                   ELSE g.store,
         raised |-> ~wok,
         expired |-> g.expired]

\* batchDeleteFilesFromStorage(fileIds): returns at once on an empty list,
\* otherwise always writes
batchDeleteFilesFromStorage(store, ids, t, sok, wok) ==
    IF ids = {}
    THEN [store |-> store, raised |-> FALSE, expired |-> <<>>]
    ELSE LET g == getStoredFiles(store, t, sok)
             updatedFiles == SelectSeq(g.valid, LAMBDA f : f.id \notin ids)
         IN  [store |-> IF wok THEN updatedFiles ELSE g.store,
              raised |-> ~wok,
              expired |-> g.expired]

\* { ...files[fileIndex], ...updates }: updates is a function on some fields
MergeUpdates(r, u) ==
    [f \in DOMAIN r |-> IF f \in DOMAIN u THEN u[f] ELSE r[f]]

\* updateFileInStorage(fileId, updates): throws when the id is not found
updateFileInStorage(store, id, u, t, sok, wok) ==
    LET g == getStoredFiles(store, t, sok)
        fs == g.valid
        fileIndex == FindIndex(fs, id)
    IN  IF fileIndex = 0
        THEN [store |-> g.store, raised |-> TRUE, expired |-> g.expired]
        ELSE [store |-> IF wok
                        THEN [fs EXCEPT ![fileIndex] = MergeUpdates(fs[fileIndex], u)]
                        ELSE g.store,
              raised |-> ~wok,
              expired |-> g.expired]

\* importFilesFromJson(jsonData, merge): parsed is FALSE when JSON.parse
\* throws or the value is no array; imported is the parsed array otherwise.
importFilesFromJson(store, parsed, imported, merge, t, sok, wok) ==
    IF ~parsed
    THEN [store |-> store, raised |-> TRUE, expired |-> <<>>]
    ELSE LET validFiles == SelectSeq(imported, IsValidEntry)
             g == getStoredFiles(store, t, sok)
             existingFiles == g.valid
             newFiles == SelectSeq(validFiles,
                                   LAMBDA f : f.id \notin IdsOf(existingFiles))
             finalFiles == IF merge THEN existingFiles \o newFiles ELSE validFiles
             before == IF merge THEN g.store ELSE store
         IN  [store |-> IF wok THEN finalFiles ELSE before,
              raised |-> ~wok,
              expired |-> IF merge THEN g.expired ELSE <<>>]

----------------------------------------------------------------------------
(* The storage API called directly, in any order *)

\* What a call leaves behind for the postconditions below: the operation,
\* the index before it, the time, the arguments, the returned list, whether
\* it threw, the expired records its sweep handed to the remote delete, and
\* whether the sweep's localStorage.setItem succeeded.  The write operations
\* add wok: whether their own localStorage.setItem succeeded (TRUE when it
\* was not called).
Call(op, ret, res, sok, rec, ids) ==
    [op |-> op, pre |-> storage, t |-> now, rec |-> rec, ids |-> ids,
     ret |-> ret, raised |-> res.raised, swept |-> res.expired, sok |-> sok]

\* Entries found in the store at start: written by earlier versions of the
\* program (legacy entries without expiresAt) or damaged (not valid).
InitEntries ==
    {Rec(id, 0, exp, 1, wf) : id \in Ids, exp \in {0, 1 + Day}, wf \in BOOLEAN}

InitStores == {s \in SeqsUpTo(InitEntries, MaxLen) : UniqueIds(s)}

\* The FileInfo values a caller passes at time t
InputRecs(t) == {Rec(id, t, t + Day, 2, TRUE) : id \in Ids}

\* Entries of an imported JSON array: a record, a legacy record, a damaged one
ImportEntries ==
    {Rec("a", 1, 1 + Day, 2, TRUE), Rec("b", 0, 0, 1, TRUE),
     Rec("b", 0, 1 + Day, 1, FALSE)}

Updates == {[ver |-> 2]} \cup {[id |-> i] : i \in Ids}

\* The outcomes of a localStorage.setItem: drawn only when the call is made.
\* SweepOutcomes: the sweep writes when it found an expired record.
SweepOutcomes(store, t) ==
    IF getStoredFiles(store, t, TRUE).expired # <<>> THEN BOOLEAN ELSE {TRUE}

\* deleteFileFromStorage and updateFileInStorage write when they find id
WriteOutcomes(store, id, t) ==
    IF id \in IdsOf(getStoredFiles(store, t, TRUE).valid) THEN BOOLEAN ELSE {TRUE}

InitCommon ==
    /\ now = 1
    /\ last = Call("init", <<>>, [raised |-> FALSE, expired |-> <<>>], TRUE, NoRec, {})
    /\ files = <<>>
    /\ cloud = <<>>
    /\ loads = 0
    /\ attempts = [i \in Ids |-> 0]
    /\ removed = {}
    /\ listA = <<>>
    /\ listB = <<>>
    /\ merged = <<"none">>
    /\ args = <<>>
    /\ result = <<"none">>

InitStorage ==
    /\ storage \in InitStores
    /\ InitCommon

Tick ==
    /\ now < MaxTime
    /\ now' = now + 1
    /\ UNCHANGED <<storage, last, appVars, mergeVars, callVars>>

GetStoredFiles ==
    \E sok \in SweepOutcomes(storage, now) :
        LET g == getStoredFiles(storage, now, sok)
        IN  /\ storage' = g.store
            /\ last' = Call("get", g.valid, [raised |-> FALSE, expired |-> g.expired], sok, NoRec, {})
            /\ UNCHANGED <<now, appVars, mergeVars, callVars>>

SaveFile ==
    \E r \in InputRecs(now), sok \in SweepOutcomes(storage, now), wok \in BOOLEAN :
        LET res == saveFileToStorage(storage, r, now, sok, wok)
        IN  /\ Len(res.store) <= MaxLen
            /\ storage' = res.store
            /\ last' = Call("save", <<>>, res, sok, r, {}) @@ [wok |-> wok]
            /\ UNCHANGED <<now, appVars, mergeVars, callVars>>

DeleteFile ==
    \E id \in Ids, sok \in SweepOutcomes(storage, now) :
      \E wok \in WriteOutcomes(storage, id, now) :
        LET res == deleteFileFromStorage(storage, id, now, sok, wok)
        IN  /\ storage' = res.store
            /\ last' = Call("delete", <<>>, res, sok, NoRec, {id}) @@ [wok |-> wok]
            /\ UNCHANGED <<now, appVars, mergeVars, callVars>>

BatchDelete ==
    \E ids \in SUBSET Ids :
      \E sok \in IF ids = {} THEN {TRUE} ELSE SweepOutcomes(storage, now),
         wok \in IF ids = {} THEN {TRUE} ELSE BOOLEAN :
        LET res == batchDeleteFilesFromStorage(storage, ids, now, sok, wok)
        IN  /\ storage' = res.store
            /\ last' = Call("batch", <<>>, res, sok, NoRec, ids) @@ [wok |-> wok]
            /\ UNCHANGED <<now, appVars, mergeVars, callVars>>

UpdateFile ==
    \E id \in Ids, u \in Updates, sok \in SweepOutcomes(storage, now) :
      \E wok \in WriteOutcomes(storage, id, now) :
        LET res == updateFileInStorage(storage, id, u, now, sok, wok)
        IN  /\ storage' = res.store
            /\ last' = Call("update", <<>>, res, sok, NoRec, {id}) @@ [wok |-> wok]
            /\ UNCHANGED <<now, appVars, mergeVars, callVars>>

\* importFilesFromJson(jsonData, merge): the JSON does not parse to an array,
\* or it does and replaces the index (merge = false: no read of the index),
\* or it does and is merged into the index.
ImportFiles ==
    \/ LET res == importFilesFromJson(storage, FALSE, <<>>, FALSE, now, TRUE, TRUE)
       IN  /\ storage' = res.store
           /\ last' = Call("import", <<>>, res, TRUE, NoRec, {})
           /\ UNCHANGED <<now, appVars, mergeVars, callVars>>
    \/ \E imported \in SeqsUpTo(ImportEntries, MaxImportLen), wok \in BOOLEAN :
        LET res == importFilesFromJson(storage, TRUE, imported, FALSE,
                                       now, TRUE, wok)
        IN  /\ storage' = res.store
            /\ last' = Call("import", <<>>, res, TRUE, NoRec, {})
            /\ UNCHANGED <<now, appVars, mergeVars, callVars>>
    \/ \E imported \in SeqsUpTo(ImportEntries, MaxImportLen),
          sok \in SweepOutcomes(storage, now), wok \in BOOLEAN :
        LET res == importFilesFromJson(storage, TRUE, imported, TRUE,
                                       now, sok, wok)
        IN  /\ Len(res.store) <= MaxLen
            /\ storage' = res.store
            /\ last' = Call("merge-import", <<>>, res, sok, NoRec, {})
            /\ UNCHANGED <<now, appVars, mergeVars, callVars>>

NextStorage ==
    \/ Tick
    \/ GetStoredFiles
    \/ SaveFile
    \/ DeleteFile
    \/ BatchDelete
    \/ UpdateFile
    \/ ImportFiles

SpecStorage == InitStorage /\ [][NextStorage]_vars

----------------------------------------------------------------------------
(* Claims about the Local Index, checked under SpecStorage.  A "record" is  *)
(* an entry that passes the read-time validation; it is expired at t when  *)
(* it has an expiresAt <= t and unexpired when it has an expiresAt > t     *)
(* (a legacy record without expiresAt is neither until it is back-filled). *)

Records(s) == SelectSeq(s, IsValidEntry)

HasExpiredRecord(s, t) ==
    \E i \in DOMAIN s : s[i].wf /\ s[i].expiresAt # 0 /\ s[i].expiresAt <= t

Unexpired(s, t) == SelectSeq(s, LAMBDA r : r.wf /\ r.expiresAt > t)

\* Every entry of s is an entry of the index before the call, possibly with
\* its missing expiresAt back-filled at time t.
FromIndex(s, pre, t) ==
    \A i \in DOMAIN s :
        \E j \in DOMAIN pre : s[i] = pre[j] \/ s[i] = Backfill(pre[j], t)

\* C1 (as claimed): after any sequence of saveFileToStorage,
\* deleteFileFromStorage, batchDeleteFilesFromStorage, updateFileInStorage,
\* importFilesFromJson and getStoredFiles calls on an index whose ids are
\* unique, no two persisted records share an id.
C1_UniqueIds == UniqueIds(Records(storage))

\* C2 (as claimed): after getStoredFiles ran its sweep at time t, no record
\* with expiresAt <= t is persisted and none is in the returned list.
C2_NoExpiredAfterSweep ==
    last.op = "get" =>
        /\ ~HasExpiredRecord(storage, last.t)
        /\ ~HasExpiredRecord(last.ret, last.t)

\* C2 (amended): after getStoredFiles ran its sweep at time t, no record with
\* expiresAt <= t is in the returned list; none is persisted when the
\* sweep's localStorage write succeeded; when that write failed, the
\* persisted index is what it was before the call.
C2_SweepRemovesExpired ==
    last.op = "get" =>
        /\ ~HasExpiredRecord(last.ret, last.t)
        /\ last.sok => ~HasExpiredRecord(storage, last.t)
        /\ ~last.sok => storage = last.pre

C2_Witness ==
    /\ last.op = "get"
    /\ last.sok
    /\ last.swept # <<>>
    /\ HasExpiredRecord(last.pre, last.t)
    /\ storage # <<>>

\* C3: the sweep run by getStoredFiles at time t leaves every record with
\* expiresAt > t untouched: these records, with all fields and in the same
\* relative order, stay in the persisted index and are in the returned list.
C3_SweepKeepsUnexpired ==
    last.op = "get" =>
        /\ IsSubseq(Unexpired(last.pre, last.t), storage)
        /\ IsSubseq(Unexpired(last.pre, last.t), last.ret)

C3_Witness ==
    /\ last.op = "get"
    /\ last.sok
    /\ last.swept # <<>>
    /\ Len(Unexpired(last.pre, last.t)) = 1
    /\ Len(last.pre) = 2
    /\ storage = Unexpired(last.pre, last.t)

\* C9 (as claimed): after saveFileToStorage(r) returned, the persisted index
\* holds exactly one record with id r.id, it equals r in every field, and
\* every other unexpired record is unchanged.
C9_Upsert ==
    (last.op = "save" /\ ~last.raised) =>
        /\ Records(SelectSeq(storage, LAMBDA f : f.id = last.rec.id)) = <<last.rec>>
        /\ IsSubseq(SelectSeq(Unexpired(last.pre, last.t),
                              LAMBDA f : f.id # last.rec.id),
                    storage)

\* C9 on an index whose ids are unique (not the claim: the claim has no such
\* condition): the upsert is as claimed.
C9_UpsertOnUniqueIndex ==
    (last.op = "save" /\ ~last.raised /\ UniqueIds(Records(last.pre))) => C9_Upsert

NamedAbsent == \A i \in DOMAIN last.pre : last.pre[i].wf => last.pre[i].id \notin last.ids

\* C10 (as claimed), taken for the calls in which every localStorage write
\* succeeds (so that none raises): deleteFileFromStorage(id) and
\* batchDeleteFilesFromStorage(ids) remove exactly the records whose id is
\* named and leave every other unexpired record unchanged; when none of the
\* named ids exists, the persisted record set is unchanged (here: the set of
\* the persisted records' ids, so that a back-filled expiresAt is no change).
C10_DeleteExactly ==
    (last.op \in {"delete", "batch"} /\ last.sok /\ ~last.raised) =>
        /\ \A i \in DOMAIN storage : storage[i].wf => storage[i].id \notin last.ids
        /\ IsSubseq(SelectSeq(Unexpired(last.pre, last.t),
                              LAMBDA f : f.id \notin last.ids),
                    storage)
        /\ NamedAbsent => IdsOf(Records(storage)) = IdsOf(Records(last.pre))

\* C10 (amended): when they return without error, deleteFileFromStorage(id)
\* and batchDeleteFilesFromStorage(ids) leave no unexpired record with a
\* named id, leave every other unexpired record unchanged and in order, and
\* add nothing to the index; when none of the named ids exists every
\* unexpired record is unchanged and deleteFileFromStorage raises no error
\* (the persisted index may still change: the read sweeps expired records,
\* and the batch delete rewrites the index and raises when that write fails).
C10_DeleteNamedUnexpired ==
    last.op \in {"delete", "batch"} =>
        /\ ~last.raised =>
            /\ \A i \in DOMAIN storage :
                  (storage[i].wf /\ storage[i].id \in last.ids)
                      => (storage[i].expiresAt # 0 /\ storage[i].expiresAt <= last.t)
            /\ IsSubseq(SelectSeq(Unexpired(last.pre, last.t),
                                  LAMBDA f : f.id \notin last.ids),
                        storage)
            /\ FromIndex(storage, last.pre, last.t)
        /\ NamedAbsent =>
            /\ IsSubseq(Unexpired(last.pre, last.t), storage)
            /\ last.op = "delete" => ~last.raised

C10_Witness ==
    /\ last.op = "batch"
    /\ ~last.raised
    /\ Len(Unexpired(last.pre, last.t)) = 2
    /\ Cardinality(last.ids) = 1
    /\ Len(storage) = 1
    /\ storage[1].id \notin last.ids

----------------------------------------------------------------------------
(* Failing writes of the Local Index, checked under SpecStorage *)

WriteOps == {"save", "delete", "batch", "update"}

WriteFailed == last.op \in WriteOps /\ ~last.wok

\* C12 (as claimed): when the localStorage write of saveFileToStorage,
\* deleteFileFromStorage, batchDeleteFilesFromStorage or updateFileInStorage
\* fails, the operation raises an error and the persisted record set is what
\* it was before the call (here: the same record ids).
C12_FailedWriteChangesNothing ==
    WriteFailed =>
        /\ last.raised
        /\ IdsOf(Records(storage)) = IdsOf(Records(last.pre))

\* C12 (amended): when that write fails, the operation raises an error, every
\* unexpired record persisted before the call is still persisted, unchanged
\* and in order, and nothing is added; the persisted index is what it was
\* before the call unless the read at the start of the operation swept
\* expired records and its own write succeeded.
C12_FailedWriteKeepsUnexpired ==
    WriteFailed =>
        /\ last.raised
        /\ IsSubseq(Unexpired(last.pre, last.t), storage)
        /\ FromIndex(storage, last.pre, last.t)
        /\ (last.swept = <<>> \/ ~last.sok) => storage = last.pre
        /\ (last.swept # <<>> /\ last.sok)
              => ~HasExpiredRecord(storage, last.t)

C12_Witness ==
    /\ WriteFailed
    /\ last.op = "save"
    /\ last.raised
    /\ last.sok
    /\ last.swept # <<>>
    /\ Len(last.pre) = 2
    /\ Len(storage) = 1


\* The calls of the claim: upload completions and loads save, the delete
\* handlers delete, the timer reads
MutationOps == {"save", "delete", "batch", "get"}

\* C25: each storage mutation reads and rewrites the whole record set in one
\* step, so whatever calls came before, a save, delete, batch delete or read
\* leaves every record persisted that was unexpired and not named by the
\* delete, and a save that returned leaves its record persisted.
C25_NoLostUpdate ==
    last.op \in MutationOps =>
        /\ \A i \in DOMAIN last.pre :
              (/\ last.pre[i].wf
               /\ last.pre[i].expiresAt > last.t
               /\ last.pre[i].id \notin last.ids)
                  => last.pre[i].id \in IdsOf(Records(storage))
        /\ (last.op = "save" /\ ~last.raised) =>
              \E k \in DOMAIN storage : storage[k] = last.rec

\* A save after a save: both records are persisted
C25_Witness ==
    /\ last.op = "save"
    /\ ~last.raised
    /\ \E i \in DOMAIN last.pre :
          /\ last.pre[i].wf
          /\ last.pre[i].ver = 2
          /\ last.pre[i].expiresAt > last.t
          /\ last.pre[i].id # last.rec.id
          /\ \E k \in DOMAIN storage : storage[k] = last.pre[i]
    /\ \E k \in DOMAIN storage : storage[k] = last.rec


\* C27: a persisted record that lacks expiresAt is back-filled with
\* now + 24h by the first getStoredFiles that reads it and the value is kept
\* for later reads (so that periodic reads sweep it 24 hours later): after
\* a read, no persisted record lacks expiresAt.
C27_BackfillKept ==
    last.op = "get" =>
        \A k \in DOMAIN storage : storage[k].wf => storage[k].expiresAt # 0

----------------------------------------------------------------------------
(* src/lib/cloud-sync.ts: index reconciliation *)

\* fileMap.set(file.id, file): a Map keeps the place of a key it holds
MapSet(m, f) ==
    LET i == FindIndex(m, f.id)
    IN  IF i > 0 THEN [m EXCEPT ![i] = f] ELSE Append(m, f)

\* localFiles.forEach(file => fileMap.set(file.id, file))
RECURSIVE AddLocal(_, _)
AddLocal(m, fs) ==
    IF fs = <<>> THEN m ELSE AddLocal(MapSet(m, Head(fs)), Tail(fs))

\* Mutants of AddCloudFile: no lookup of the id; the cloud record always
\* wins; the older record wins.
AddCloudFile_NoLookup(m, f) == Append(m, f)

AddCloudFile_CloudWins(m, f) == MapSet(m, f)

AddCloudFile_OlderWins(m, f) ==
    LET i == FindIndex(m, f.id)
    IN  IF i = 0 THEN Append(m, f)
        ELSE IF f.uploadTime < m[i].uploadTime THEN [m EXCEPT ![i] = f]
        ELSE m

\* Mutant of AddCloudFile: on equal uploadTime the cloud record wins.
AddCloudFile_TieCloudWins(m, f) ==
    LET i == FindIndex(m, f.id)
    IN  IF i = 0 THEN Append(m, f)
        ELSE IF f.uploadTime >= m[i].uploadTime THEN [m EXCEPT ![i] = f]
        ELSE m

\* The body of cloudFiles.forEach: insert an absent id, else keep the record
\* with the strictly later uploadTime
AddCloudFile(m, f) ==
    LET i == FindIndex(m, f.id)
    IN  IF i = 0 THEN Append(m, f)
        ELSE IF f.uploadTime > m[i].uploadTime THEN [m EXCEPT ![i] = f]
        ELSE m

RECURSIVE AddCloud(_, _)
AddCloud(m, fs) ==
    IF fs = <<>> THEN m ELSE AddCloud(AddCloudFile(m, Head(fs)), Tail(fs))

\* One step of the stable sort by uploadTime descending: f goes behind every
\* entry that is not older than it.
RECURSIVE InsertByUploadTimeDesc(_, _)
InsertByUploadTimeDesc(s, f) ==
    IF s = <<>> THEN <<f>>
    ELSE IF Head(s).uploadTime >= f.uploadTime
         THEN <<Head(s)>> \o InsertByUploadTimeDesc(Tail(s), f)
         ELSE <<f>> \o s

\* array.sort((a, b) => time(b) - time(a)); Array.prototype.sort is stable
RECURSIVE SortByUploadTimeDesc(_)
SortByUploadTimeDesc(s) ==
    IF s = <<>> THEN <<>>
    ELSE InsertByUploadTimeDesc(
             SortByUploadTimeDesc(SubSeq(s, 1, Len(s) - 1)), s[Len(s)])

mergeFileLists(localFiles, cloudFiles) ==
    SortByUploadTimeDesc(AddCloud(AddLocal(<<>>, localFiles), cloudFiles))

----------------------------------------------------------------------------
(* mergeFileLists applied to every pair of lists within the bounds *)

MergeTimes == {1, 2}

MergeRecs ==
    {Rec(id, up, up + Day, v, TRUE) : id \in Ids, up \in MergeTimes, v \in Vers}

InitMerge ==
    /\ listA \in SeqsUpTo(MergeRecs, MaxMergeLen)
    /\ listB \in SeqsUpTo(MergeRecs, MaxMergeLen)
    /\ merged = <<"none">>
    /\ args = <<>>
    /\ result = <<"none">>
    /\ storage = <<>>
    /\ now = 1
    /\ last = Call("init", <<>>, [raised |-> FALSE, expired |-> <<>>], TRUE, NoRec, {})
    /\ files = <<>>
    /\ cloud = <<>>
    /\ loads = 0
    /\ attempts = [i \in Ids |-> 0]
    /\ removed = {}

Merge ==
    /\ merged = <<"none">>
    /\ merged' = <<"done", mergeFileLists(listA, listB), mergeFileLists(listB, listA)>>
    /\ UNCHANGED <<listA, listB, storageVars, appVars, callVars>>

NextMerge == Merge

SpecMerge == InitMerge /\ [][NextMerge]_vars

MergeDone == merged[1] = "done"

MergeAB == merged[2]

MergeBA == merged[3]

Inputs == listA \o listB

\* C6: for all lists A and B, mergeFileLists(A, B) contains exactly the
\* union of the ids of A and B, and no id more than once.
C6_MergeUnionOfIds ==
    MergeDone =>
        /\ IdsOf(MergeAB) = IdsOf(listA) \cup IdsOf(listB)
        /\ UniqueIds(MergeAB)

C6_Witness ==
    /\ MergeDone
    /\ IdsOf(listA) \cap IdsOf(listB) # {}
    /\ IdsOf(listA) \ IdsOf(listB) # {}
    /\ ~UniqueIds(listB)
    /\ Len(MergeAB) = 2

\* The record mergeFileLists(A, B) holds for an id is the latest of the
\* input records with that id.
LatestWins(out, id) ==
    \A i \in DOMAIN out : out[i].id = id =>
        \A j \in DOMAIN Inputs :
            Inputs[j].id = id => Inputs[j].uploadTime <= out[i].uploadTime

\* C7 (as claimed): for all records r1, r2 of the inputs sharing an id with
\* different uploadTime, the output record for the id is the later one.
C7_LatestWins ==
    MergeDone => \A id \in Ids : LatestWins(MergeAB, id)

\* C7 (amended): the same, for inputs whose first list holds each id at most
\* once (the first list is entered unconditionally, so of two records of the
\* first list sharing an id the one later in the list is kept).
C7_LatestWinsFirstListUnique ==
    (MergeDone /\ UniqueIds(listA)) =>
        /\ \A id \in Ids : LatestWins(MergeAB, id)
        /\ \A i \in DOMAIN listA :
              (\A j \in DOMAIN listB :
                    listB[j].id = listA[i].id
                        => listB[j].uploadTime < listA[i].uploadTime)
                  => \E k \in DOMAIN MergeAB : MergeAB[k] = listA[i]

C7_Witness ==
    /\ MergeDone
    /\ UniqueIds(listA)
    /\ \E i \in DOMAIN listA, j \in DOMAIN listB, k \in DOMAIN MergeAB :
          /\ listA[i].id = listB[j].id
          /\ listB[j].uploadTime < listA[i].uploadTime
          /\ listB[j].ver # listA[i].ver
          /\ MergeAB[k] = listA[i]
    /\ \E i \in DOMAIN listA, j \in DOMAIN listB, k \in DOMAIN MergeAB :
          /\ listA[i].id = listB[j].id
          /\ listB[j].uploadTime > listA[i].uploadTime
          /\ MergeAB[k] = listB[j]

\* No two records of the inputs sharing an id have equal uploadTime.
NoTies ==
    \A i, j \in DOMAIN Inputs :
        (i # j /\ Inputs[i].id = Inputs[j].id)
            => Inputs[i].uploadTime # Inputs[j].uploadTime

Range(s) == {s[i] : i \in DOMAIN s}

\* C8 (as claimed): when no two records sharing an id have equal uploadTime,
\* mergeFileLists(A, B) and mergeFileLists(B, A) are the same list.
C8_Commutative == (MergeDone /\ NoTies) => MergeAB = MergeBA

\* C8 (amended): when no two records sharing an id have equal uploadTime and
\* neither list holds an id twice, mergeFileLists(A, B) and
\* mergeFileLists(B, A) hold the same records; they are the same list when,
\* moreover, no two records of the output have equal uploadTime.
C8_CommutativeUpToTies ==
    (MergeDone /\ NoTies /\ UniqueIds(listA) /\ UniqueIds(listB)) =>
        /\ Range(MergeAB) = Range(MergeBA)
        /\ Len(MergeAB) = Len(MergeBA)
        /\ (\A i, j \in DOMAIN MergeAB :
                i # j => MergeAB[i].uploadTime # MergeAB[j].uploadTime)
            => MergeAB = MergeBA

C8_Witness ==
    /\ MergeDone
    /\ NoTies
    /\ UniqueIds(listA)
    /\ UniqueIds(listB)
    /\ IdsOf(listA) \cap IdsOf(listB) # {}
    /\ Len(MergeAB) = 2
    /\ MergeAB[1].uploadTime # MergeAB[2].uploadTime
    /\ listA # listB
    /\ MergeAB = MergeBA

\* The record of the first list at i ties with one of the second list
TiesAt(i) ==
    \E j \in DOMAIN listB :
        /\ listB[j].id = listA[i].id
        /\ listB[j].uploadTime = listA[i].uploadTime

KeptFromFirst(i) ==
    \A k \in DOMAIN MergeAB : MergeAB[k].id = listA[i].id => MergeAB[k] = listA[i]

\* C22 (as claimed): when both lists hold a record with the same id and
\* exactly equal uploadTime, mergeFileLists(first, second) keeps the record
\* of the first list, whatever the other fields.
C22_TieKeepsFirst ==
    MergeDone => \A i \in DOMAIN listA : TiesAt(i) => KeptFromFirst(i)

\* C22 (amended): the same, when neither list holds an id twice (a later
\* record of the first list with the id is entered over the tied one, and a
\* record of the second list with a later uploadTime replaces it).
C22_TieKeepsFirstUniqueLists ==
    (MergeDone /\ UniqueIds(listA) /\ UniqueIds(listB)) =>
        \A i \in DOMAIN listA : TiesAt(i) => KeptFromFirst(i)

C22_Witness ==
    /\ MergeDone
    /\ UniqueIds(listA)
    /\ UniqueIds(listB)
    /\ \E i \in DOMAIN listA, j \in DOMAIN listB :
          /\ listB[j].id = listA[i].id
          /\ listB[j].uploadTime = listA[i].uploadTime
          /\ listB[j].ver # listA[i].ver
          /\ KeptFromFirst(i)

----------------------------------------------------------------------------
(* src/lib/cloud-storage.ts and src/components/FileManager.tsx: the        *)
(* cloud-first file list.  A resource of the remote listing is a record    *)
(* whose expiresAt is 0 when its index tag carries none.                   *)

\* data.resources.map(...): expiresAt: fileInfo.expiresAt || now + 24h
CloudFileInfo(r, t) ==
    IF r.expiresAt = 0 THEN [r EXCEPT !.expiresAt = t + Day] ELSE r

\* getFilesFromCloud() at time t over the listed resources res: convert,
\* Array.from(new Map(allFiles.map(f => [f.id, f])).values()), sort
getFilesFromCloud(res, t) ==
    SortByUploadTimeDesc(
        AddLocal(<<>>, MapSeq(res, LAMBDA r : CloudFileInfo(r, t))))

\* The Local Index read by getHybridFileList when the cloud list is empty
LocalFileList(g) == [list |-> g.valid, store |-> g.store, expired |-> g.expired]

\* getHybridFileList(): the cloud list when it is not empty, else the Local
\* Index.  listed: whether the list requests succeed.
getHybridFileList(store, res, listed, t) ==
    IF listed /\ res # <<>>
    THEN [list |-> getFilesFromCloud(res, t), store |-> store, expired |-> <<>>]
    ELSE LocalFileList(getStoredFiles(store, t, TRUE))

\* One saveFileToStorage(file) of the loop below, its result added to acc
SaveNext(acc, one) ==
    [store |-> one.store, raised |-> one.raised,
     expired |-> acc.expired \o one.expired]

\* for (const file of fileList) saveFileToStorage(file): the loop ends at
\* the first call that throws.  wok: whether a write that adds to the index
\* succeeds (a sweep's write shrinks the index and succeeds).
RECURSIVE SaveAll(_, _, _, _)
SaveAll(acc, fs, t, wok) ==
    IF fs = <<>> \/ acc.raised THEN acc
    ELSE SaveAll(SaveNext(acc, saveFileToStorage(acc.store, Head(fs), t, TRUE, wok)),
                 Tail(fs), t, wok)

\* The catch branch of loadFiles: setFiles(getStoredFiles())
LoadFallback(swept, g) ==
    [store |-> g.store, files |-> g.valid, expired |-> swept \o g.expired]

\* loadFiles() after the saves: setFiles(fileList), or the catch branch
LoadSaved(h, sv, t) ==
    IF sv.raised
    THEN LoadFallback(sv.expired, getStoredFiles(sv.store, t, TRUE))
    ELSE [store |-> sv.store, files |-> h.list, expired |-> sv.expired]

\* loadFiles() after getHybridFileList returned h: the saves are made when
\* isConnected && fileList.length > 0
LoadListed(h, conn, t, wok) ==
    LoadSaved(h,
              SaveAll([store |-> h.store, raised |-> FALSE, expired |-> h.expired],
                      IF conn THEN h.list ELSE <<>>, t, wok),
              t)

\* loadFiles() from the point where its network requests have settled.
\* conn: the result of checkCloudConnection().
loadFiles(store, res, conn, listed, t, wok) ==
    LoadListed(getHybridFileList(store, res, listed, t), conn, t, wok)

\* The end of a delete handler: res is what the storage call returned, fs
\* the displayed list after setFiles(prev => prev.filter(...))
Deleted(res, fs) == [store |-> res.store, files |-> fs, expired |-> res.expired]

\* Mutant of handleDeleteFile: the displayed list is left as it is.
handleDeleteFile_IndexOnly(store, fs, id, t) ==
    Deleted(deleteFileFromStorage(store, id, t, TRUE, TRUE), fs)

\* handleDeleteFile(fileId) for a displayed file: deleteFileFromCloudinary
\* resolves at once without deleting, so the handler runs to its end
handleDeleteFile(store, fs, id, t) ==
    Deleted(deleteFileFromStorage(store, id, t, TRUE, TRUE),
            SelectSeq(fs, LAMBDA f : f.id # id))

\* handleBatchDelete(fileIds)
handleBatchDelete(store, fs, ids, t) ==
    Deleted(batchDeleteFilesFromStorage(store, ids, t, TRUE, TRUE),
            SelectSeq(fs, LAMBDA f : f.id \notin ids))

\* deleteFileFromCloudinary is called once for every entry of expired
Attempted(att, expired) ==
    [i \in Ids |->
        att[i] + Cardinality({k \in DOMAIN expired : expired[k].id = i})]

WithinAttempts(att) == \A i \in Ids : att[i] <= MaxAttempts

----------------------------------------------------------------------------
(* FileManager mounted in a browser whose Local Index is empty, over a     *)
(* remote listing that no operation changes                                *)

\* The resources of the listing: "a" uploaded at time 1, "b" at time 0; an
\* index tag, where there is one, carries an expiresAt 24 hours after that.
UploadedAt(id) == IF id = "a" THEN 1 ELSE 0

CloudResources ==
    {Rec(id, UploadedAt(id), IF tagged THEN UploadedAt(id) + Day ELSE 0, 1, TRUE) :
        id \in Ids, tagged \in BOOLEAN}

InitApp ==
    /\ cloud \in SeqsUpTo(CloudResources, MaxCloudLen)
    /\ storage = <<>>
    /\ now = 1
    /\ last = Call("init", <<>>, [raised |-> FALSE, expired |-> <<>>], TRUE, NoRec, {})
    /\ files = <<>>
    /\ loads = 1
    /\ attempts = [i \in Ids |-> 0]
    /\ removed = {}
    /\ listA = <<>>
    /\ listB = <<>>
    /\ merged = <<"none">>
    /\ args = <<>>
    /\ result = <<"none">>

AppTick ==
    /\ now < MaxTime
    /\ now' = now + 1
    /\ UNCHANGED <<storage, last, appVars, mergeVars, callVars>>

\* What a handler that returned res leaves: the index, the displayed list
\* and one remote delete attempt for every record its sweeps found expired
Handled(res) ==
    /\ WithinAttempts(Attempted(attempts, res.expired))
    /\ storage' = res.store
    /\ files' = res.files
    /\ attempts' = Attempted(attempts, res.expired)

\* A loadFiles call whose requests have settled runs to its end
LoadFinish ==
    /\ loads > 0
    /\ \E conn, listed, wok \in BOOLEAN :
          Handled(loadFiles(storage, cloud, conn, listed, now, wok))
    /\ loads' = loads - 1
    /\ UNCHANGED <<now, last, cloud, removed, mergeVars, callVars>>

\* What the interval callback's getStoredFiles() returned g leaves: the
\* swept index; the displayed list fs is not set
TimerRead(g, fs) == [store |-> g.store, files |-> fs, expired |-> g.expired]

\* The one-minute interval callback: getStoredFiles(), then loadFiles()
TimerTick ==
    /\ loads < MaxLoads
    /\ Handled(TimerRead(getStoredFiles(storage, now, TRUE), files))
    /\ loads' = loads + 1
    /\ UNCHANGED <<now, last, cloud, removed, mergeVars, callVars>>

\* handleRefresh(): loadFiles()
Refresh ==
    /\ loads < MaxLoads
    /\ loads' = loads + 1
    /\ UNCHANGED <<storageVars, files, cloud, attempts, removed, mergeVars, callVars>>

HandleDeleteFile ==
    \E id \in IdsOf(files) :
        /\ Handled(handleDeleteFile(storage, files, id, now))
        /\ removed' = removed \cup {id}
        /\ UNCHANGED <<now, last, cloud, loads, mergeVars, callVars>>

HandleBatchDelete ==
    \E ids \in (SUBSET IdsOf(files)) \ {{}} :
        /\ Handled(handleBatchDelete(storage, files, ids, now))
        /\ removed' = removed \cup ids
        /\ UNCHANGED <<now, last, cloud, loads, mergeVars, callVars>>

NextApp ==
    \/ AppTick
    \/ LoadFinish
    \/ TimerTick
    \/ Refresh
    \/ HandleDeleteFile
    \/ HandleBatchDelete

SpecApp == InitApp /\ [][NextApp]_vars

\* C4 (as claimed): across any sequence of reads of the Local Index, remote
\* deletion is attempted for an expired record exactly once; here, the part
\* that it is never attempted a second time.
C4_AttemptedAtMostOnce == \A i \in Ids : attempts[i] <= 1

\* C5 (as claimed): a record removed by handleDeleteFile or handleBatchDelete
\* does not reappear in the Local Index or in the displayed list through a
\* later loadFiles, timer tick or refresh (no action uploads it again).
C5_RemovedStaysRemoved ==
    \A i \in removed : i \notin IdsOf(Records(storage)) /\ i \notin IdsOf(files)

----------------------------------------------------------------------------
(* src/lib/utils.ts: getStoredFiles over any stored value.  The value of   *)
(* localStorage['uploaded-files'] is [kind, entries]: kind "array" is a    *)
(* text that parses to the array entries, "missing" no value (getItem      *)
(* returns null), "empty" the empty string, "text" a text JSON.parse       *)
(* rejects, "object" a text that parses to something that is no array.     *)

Stored(kind, entries) == [kind |-> kind, entries |-> entries]

\* Mutants of readStoredFiles: the catch branch leaves the stored value; the
\* entries are not validated.
readStoredFiles_NoReset(stored, t, ok) ==
    IF stored.kind = "array"
    THEN [ret |-> getStoredFiles(stored.entries, t, ok).valid,
          stored |-> Stored("array", getStoredFiles(stored.entries, t, ok).store),
          raised |-> FALSE,
          expired |-> getStoredFiles(stored.entries, t, ok).expired]
    ELSE [ret |-> <<>>, stored |-> stored, raised |-> FALSE, expired |-> <<>>]

readStoredFiles_NoFilter(stored, t, ok) ==
    IF stored.kind = "array"
    THEN [ret |-> cleanupExpiredFilesSync(stored.entries, stored.entries, t, ok).valid,
          stored |-> Stored("array",
                      cleanupExpiredFilesSync(stored.entries, stored.entries, t, ok).store),
          raised |-> FALSE,
          expired |-> cleanupExpiredFilesSync(stored.entries, stored.entries, t, ok).expired]
    ELSE IF stored.kind \in {"missing", "empty"}
    THEN [ret |-> <<>>, stored |-> stored, raised |-> FALSE, expired |-> <<>>]
    ELSE [ret |-> <<>>, stored |-> Stored("missing", <<>>), raised |-> FALSE,
          expired |-> <<>>]

\* The whole of getStoredFiles(): if (!stored) return []; JSON.parse and
\* files.filter throw on "text" and "object", and the catch branch removes
\* the key and returns []; nothing is thrown to the caller.
readStoredFiles(stored, t, ok) ==
    IF stored.kind \in {"missing", "empty"}
    THEN [ret |-> <<>>, stored |-> stored, raised |-> FALSE, expired |-> <<>>]
    ELSE IF stored.kind = "array"
    THEN [ret |-> getStoredFiles(stored.entries, t, ok).valid,
          stored |-> Stored("array", getStoredFiles(stored.entries, t, ok).store),
          raised |-> FALSE,
          expired |-> getStoredFiles(stored.entries, t, ok).expired]
    ELSE [ret |-> <<>>, stored |-> Stored("missing", <<>>), raised |-> FALSE,
          expired |-> <<>>]

StoredValues ==
    {Stored("array", e) : e \in SeqsUpTo(InitEntries, MaxLen)}
        \cup {Stored(k, <<>>) : k \in {"missing", "empty", "text", "object"}}

InitRead ==
    /\ storage \in StoredValues
    /\ InitCommon

\* getStoredFiles() called on whatever is stored
ReadStored ==
    \E sok \in BOOLEAN :
        /\ storage' = readStoredFiles(storage, now, sok).stored
        /\ last' = Call("read", readStoredFiles(storage, now, sok).ret,
                        readStoredFiles(storage, now, sok), sok, NoRec, {})
        /\ UNCHANGED <<now, appVars, mergeVars, callVars>>

NextRead ==
    \/ Tick
    \/ ReadStored

SpecRead == InitRead /\ [][NextRead]_vars

\* The stored value reads as the empty index: no value, or the empty text
StoreEmpty(stored) == stored.kind \in {"missing", "empty"}

\* C11: getStoredFiles never throws to its caller; for any stored value it
\* returns only records whose id, fileName and cloudinaryUrl are strings;
\* when the stored value cannot be parsed as a record list the store is
\* empty afterwards and the empty list is returned.
C11_ReadNeverThrows ==
    last.op = "read" =>
        /\ ~last.raised
        /\ \A i \in DOMAIN last.ret : last.ret[i].wf
        /\ last.pre.kind # "array" => (StoreEmpty(storage) /\ last.ret = <<>>)

C11_Witness ==
    /\ last.op = "read"
    /\ last.pre.kind = "text"
    /\ storage.kind = "missing"

----------------------------------------------------------------------------
(* src/lib/cloudinary.ts: batchDeleteFilesFromCloudinary.  An entry is     *)
(* [publicId, fails]: fails tells whether deleteFileFromCloudinary rejects *)
(* for it (the deleteFileFromCloudinary of this deployment never does; the *)
(* rejecting outcomes exercise the catch branch of the batch).             *)

concurrencyLimit == 5

Min(a, b) == IF a <= b THEN a ELSE b

\* One element of chunk.map(async (file) => { try ... catch ... }); the
\* error message is `${file.publicId}: ${errorMessage}`
DeleteEntry(results, file) ==
    IF file.fails
    THEN [results EXCEPT !.failedCount = @ + 1,
                         !.errors = Append(@, file.publicId)]
    ELSE [results EXCEPT !.successCount = @ + 1]

\* await Promise.all(promises) for one chunk
RECURSIVE DeleteChunk(_, _)
DeleteChunk(results, chunk) ==
    IF chunk = <<>> THEN results
    ELSE DeleteChunk(DeleteEntry(results, Head(chunk)), Tail(chunk))

\* for (const chunk of chunks): files.slice(i, i + concurrencyLimit)
RECURSIVE DeleteChunks(_, _)
DeleteChunks(results, fs) ==
    IF fs = <<>> THEN results
    ELSE DeleteChunks(
             DeleteChunk(results, SubSeq(fs, 1, Min(concurrencyLimit, Len(fs)))),
             SubSeq(fs, Min(concurrencyLimit, Len(fs)) + 1, Len(fs)))

\* Mutant of batchDeleteFilesFromCloudinary: only the first chunk is deleted.
batchDeleteFilesFromCloudinary_FirstChunk(fs) ==
    DeleteChunk([successCount |-> 0, failedCount |-> 0, errors |-> <<>>],
                SubSeq(fs, 1, Min(concurrencyLimit, Len(fs))))

batchDeleteFilesFromCloudinary(fs) ==
    DeleteChunks([successCount |-> 0, failedCount |-> 0, errors |-> <<>>], fs)

PublicIds == {"p", "q"}

DeleteEntries == {[publicId |-> p, fails |-> f] : p \in PublicIds, f \in BOOLEAN}

InitBatch ==
    /\ args \in SeqsUpTo(DeleteEntries, MaxBatchLen)
    /\ result = <<"none">>
    /\ storage = <<>>
    /\ now = 1
    /\ last = Call("init", <<>>, [raised |-> FALSE, expired |-> <<>>], TRUE, NoRec, {})
    /\ files = <<>>
    /\ cloud = <<>>
    /\ loads = 0
    /\ attempts = [i \in Ids |-> 0]
    /\ removed = {}
    /\ listA = <<>>
    /\ listB = <<>>
    /\ merged = <<"none">>

BatchDeleteRemote ==
    /\ result = <<"none">>
    /\ result' = <<"done", batchDeleteFilesFromCloudinary(args)>>
    /\ UNCHANGED <<args, storageVars, appVars, mergeVars>>

NextBatch == BatchDeleteRemote

SpecBatch == InitBatch /\ [][NextBatch]_vars

\* The entries of fs with publicId p whose delete failed
FailedOf(fs, p) == {i \in DOMAIN fs : fs[i].fails /\ fs[i].publicId = p}

\* C13: batchDeleteFilesFromCloudinary on n entries processes every entry and
\* returns: successCount + failedCount = n, failedCount is the number of
\* entries whose delete failed, and errors holds exactly one message per
\* failed entry, naming its publicId.
C13_BatchCountsEveryEntry ==
    result[1] = "done" =>
        /\ result[2].successCount + result[2].failedCount = Len(args)
        /\ result[2].failedCount = Cardinality({i \in DOMAIN args : args[i].fails})
        /\ Len(result[2].errors) = result[2].failedCount
        /\ \A p \in PublicIds :
              Cardinality({k \in DOMAIN result[2].errors : result[2].errors[k] = p})
                  = Cardinality(FailedOf(args, p))

C13_Witness ==
    /\ result[1] = "done"
    /\ Len(args) = 7
    /\ args[2].fails
    /\ args[7].fails
    /\ args[2].publicId # args[7].publicId
    /\ result[2].successCount = 5
    /\ result[2].failedCount = 2

----------------------------------------------------------------------------
(* src/lib/cloudinary.ts: uploadFileToCloudinary(file, fileInfo,           *)
(* onProgress).  args is [configured, fileInfo, onProgress]: whether the   *)
(* cloud name is configured; fileInfo "none" (not passed), "record" (a     *)
(* FileInfo) or "callback" (a function, which is what FileUploader passes  *)
(* as its second argument); whether onProgress is passed.  result is       *)
(* <<"none">> before the call and <<"called", p>> after, p the promise:    *)
(* state "pending", "resolved" or "rejected", the value or reason, the     *)
(* number of resolve/reject calls, whether the request was sent, whether   *)
(* one of load, error, timeout has fired, the number of onProgress calls,  *)
(* and the request's xhr.status and xhr.responseText once it has ended.    *)

Promise(state, value, settles, sent) ==
    [state |-> state, value |-> value, settles |-> settles, sent |-> sent,
     ended |-> FALSE, progress |-> 0, status |-> 0, body |-> <<"none">>]

\* resolve(value), reject(reason): only the first call settles the promise
Resolve(p, value) ==
    [p EXCEPT !.state = IF p.state = "pending" THEN "resolved" ELSE @,
              !.value = IF p.state = "pending" THEN value ELSE @,
              !.settles = @ + 1]

Reject(p, reason) ==
    [p EXCEPT !.state = IF p.state = "pending" THEN "rejected" ELSE @,
              !.value = IF p.state = "pending" THEN reason ELSE @,
              !.settles = @ + 1]

\* The call up to xhr.send: a missing cloud name throws; a fileInfo without
\* a string id makes fileInfo.id.substring throw; an async function that
\* throws returns a rejected promise.
uploadFileToCloudinary(a) ==
    IF ~a.configured THEN Promise("rejected", <<"config">>, 1, FALSE)
    ELSE IF a.fileInfo = "callback" THEN Promise("rejected", <<"type-error">>, 1, FALSE)
    ELSE Promise("pending", <<"none">>, 0, TRUE)

\* xhr.onload: the body is <<"garbled">> when JSON.parse (or reading a
\* field of its result) throws, else <<secure_url, public_id>> of the
\* parsed response; the rejection names the status
xhrOnLoad(p) ==
    IF p.status = 200
    THEN IF p.body = <<"garbled">> THEN Reject(p, <<"parse">>)
         ELSE Resolve(p, p.body)
    ELSE Reject(p, <<"http", p.status>>)

xhrOnError(p) == Reject(p, <<"network">>)

\* Mutant of xhrOnTimeout: no timeout handler.
xhrOnTimeout_Unhandled(p) == p

xhrOnTimeout(p) == Reject(p, <<"timeout">>)

UploadArgs ==
    [configured : BOOLEAN, fileInfo : {"none", "record", "callback"},
     onProgress : BOOLEAN]

\* Parsed bodies: the store's answer, and an object without the two fields
Responses ==
    {<<url, id>> : url \in {"u1", "u2"}, id \in PublicIds}
      \cup {<<"undefined", "undefined">>}

Ended(p, status, body) ==
    [p EXCEPT !.ended = TRUE, !.status = status, !.body = body]

InitXhr ==
    /\ args \in UploadArgs
    /\ result = <<"none">>
    /\ storage = <<>>
    /\ now = 1
    /\ last = Call("init", <<>>, [raised |-> FALSE, expired |-> <<>>], TRUE, NoRec, {})
    /\ files = <<>>
    /\ cloud = <<>>
    /\ loads = 0
    /\ attempts = [i \in Ids |-> 0]
    /\ removed = {}
    /\ listA = <<>>
    /\ listB = <<>>
    /\ merged = <<"none">>

CallUpload ==
    /\ result = <<"none">>
    /\ result' = <<"called", uploadFileToCloudinary(args)>>
    /\ UNCHANGED <<args, storageVars, appVars, mergeVars>>

InFlight == result[1] = "called" /\ result[2].sent /\ ~result[2].ended

\* xhr.upload 'progress' event with a computable length
XhrProgress ==
    /\ InFlight
    /\ args.onProgress
    /\ result[2].progress < MaxProgress
    /\ result' = <<"called", [result[2] EXCEPT !.progress = @ + 1]>>
    /\ UNCHANGED <<args, storageVars, appVars, mergeVars>>

\* Exactly one of load, error, timeout ends a request (nothing aborts it)
XhrLoad ==
    /\ InFlight
    /\ \E status \in {200, 500}, body \in Responses \cup {<<"garbled">>} :
          result' = <<"called", xhrOnLoad(Ended(result[2], status, body))>>
    /\ UNCHANGED <<args, storageVars, appVars, mergeVars>>

XhrError ==
    /\ InFlight
    /\ result' = <<"called", xhrOnError(Ended(result[2], 0, <<"none">>))>>
    /\ UNCHANGED <<args, storageVars, appVars, mergeVars>>

XhrTimeout ==
    /\ InFlight
    /\ result' = <<"called", xhrOnTimeout(Ended(result[2], 0, <<"none">>))>>
    /\ UNCHANGED <<args, storageVars, appVars, mergeVars>>

NextXhr ==
    \/ CallUpload
    \/ XhrProgress
    \/ XhrLoad
    \/ XhrError
    \/ XhrTimeout

SpecXhr == InitXhr /\ [][NextXhr]_vars

\* The call is made, and xhr.timeout = 300000 has a request end within five
\* minutes if neither load nor error ends it before
SpecXhrFair ==
    /\ SpecXhr
    /\ WF_vars(CallUpload)
    /\ WF_vars(XhrLoad \/ XhrError \/ XhrTimeout)

Settled == result[1] = "called" /\ result[2].state \in {"resolved", "rejected"}

Answered200 ==
    /\ result[2].ended
    /\ result[2].status = 200
    /\ result[2].body # <<"garbled">>

\* resolve or reject is called exactly once by the time the request has
\* ended and never twice; the promise is resolved exactly when the response
\* was a 200 with a parseable body, then with that body's url and publicId,
\* and rejected exactly when the call threw or the request ended otherwise
SettledOnce ==
    result[1] = "called" =>
        /\ result[2].settles <= 1
        /\ result[2].settles = 1 <=> result[2].state # "pending"
        /\ result[2].state = "pending" <=> (result[2].sent /\ ~result[2].ended)
        /\ result[2].state = "resolved" <=> Answered200
        /\ result[2].state = "resolved" => result[2].value = result[2].body
        /\ result[2].state = "rejected" =>
              result[2].value \in {<<"config">>, <<"type-error">>, <<"parse">>,
                                   <<"http", 500>>, <<"network">>,
                                   <<"timeout">>}

\* C14: uploadFileToCloudinary settles exactly once: it resolves with the
\* url and publicId of a 200 response with a parseable body, rejects on a
\* non-200 status, a network error or the timeout, never both, and a call
\* never stays pending forever.
C14_SettlesExactlyOnce == []SettledOnce /\ <>Settled

C14_Witness ==
    /\ result[1] = "called"
    /\ result[2].state = "resolved"
    /\ result[2].progress = 2
    /\ result[2].settles = 1

----------------------------------------------------------------------------
(* src/components/FileUploader.tsx: handleFileUpload(files).  args is      *)
(* [files, configured, answer]: the dropped files, whether the cloud name  *)
(* is configured, and the event with which the object store would end a    *)
(* request sent to it.  result is <<"none">> before the drop and           *)
(* <<"uploading", u>> after, u holding validFiles, the index i of the next *)
(* file of the loop, the errors shown, the uploadingFiles queue, the       *)
(* number of uploadFileToCloudinary calls made for each valid file and the *)
(* records passed to onUploadComplete.                                     *)

File(name, size) == [name |-> name, size |-> size, type |-> "pdf"]

DroppedFiles == {File(n, sz) : n \in {"a", "b"}, sz \in 1..(maxFileSize + 1)}

validateFileSize(file, maxSize) == file.size <= maxSize

\* No caller passes acceptedTypes: allowedTypes is the empty set
validateFileType(file, allowedTypes) ==
    allowedTypes = {} \/ file.type \in allowedTypes

IsValidFile(file) ==
    validateFileSize(file, maxFileSize) /\ validateFileType(file, {})

ValidationError(file) ==
    <<file.name, IF validateFileSize(file, maxFileSize) THEN "type" ELSE "size">>

Answers ==
    {[event |-> "load", status |-> 200, body |-> <<"u1", "p">>],
     [event |-> "load", status |-> 200, body |-> <<"garbled">>],
     [event |-> "load", status |-> 500, body |-> <<"garbled">>],
     [event |-> "error", status |-> 0, body |-> <<"none">>],
     [event |-> "timeout", status |-> 0, body |-> <<"none">>]}

\* await: a pending promise is settled by the event that ends its request
Await(p, answer) ==
    IF p.state # "pending" THEN p
    ELSE IF answer.event = "load"
         THEN xhrOnLoad(Ended(p, answer.status, answer.body))
    ELSE IF answer.event = "error"
         THEN xhrOnError(Ended(p, 0, <<"none">>))
    ELSE xhrOnTimeout(Ended(p, 0, <<"none">>))

\* uploadFileToCloudinary(file, (progress) => {...}): the progress callback
\* is the second argument, fileInfo; no third argument is passed
UploadCall(configured) ==
    [configured |-> configured, fileInfo |-> "callback", onProgress |-> FALSE]

\* The FileInfo built after a resolved upload, at time t; id is generateId()
NewFileInfo(file, id, t, uploaded) ==
    [fileName |-> file.name, fileSize |-> file.size, fileType |-> file.type,
     cloudinaryUrl |-> uploaded[1], publicId |-> uploaded[2]]
      @@ Rec(id, t, t + Day, 1, TRUE)

SetStatus(queue, name, status) ==
    [k \in DOMAIN queue |->
        IF queue[k].fileName = name
        THEN [queue[k] EXCEPT !.status = status]
        ELSE queue[k]]

\* Mutant of NextFile: the loop ends at the first failed upload.
NextFile_StopOnFailure(u, failed) ==
    IF failed THEN Len(u.validFiles) + 1 ELSE u.i + 1

\* for (const file of validFiles): the catch block is inside the loop body
NextFile(u, failed) == u.i + 1

\* The try block after a resolved upload; sv is the outcome of
\* saveFileToStorage, which throws into the catch block when it fails
Completed(u, file, fileInfo, sv) ==
    IF sv.raised
    THEN [u EXCEPT !.i = NextFile(u, TRUE),
                   !.attempts[u.i] = @ + 1,
                   !.errors = Append(@, <<file.name, "save">>),
                   !.queue = SetStatus(Append(@, [fileName |-> file.name,
                                                  status |-> "uploading"]),
                                       file.name, "error")]
    ELSE [u EXCEPT !.i = NextFile(u, FALSE),
                   !.attempts[u.i] = @ + 1,
                   !.handed = Append(@, fileInfo),
                   !.queue = SetStatus(Append(@, [fileName |-> file.name,
                                                  status |-> "uploading"]),
                                       file.name, "completed")]

\* The catch block
Failed(u, file, reason) ==
    [u EXCEPT !.i = NextFile(u, TRUE),
              !.attempts[u.i] = @ + 1,
              !.errors = Append(@, <<file.name, reason[1]>>),
              !.queue = SetStatus(Append(@, [fileName |-> file.name,
                                             status |-> "uploading"]),
                                  file.name, "error")]

InitUpload ==
    /\ args \in [files : SeqsUpTo(DroppedFiles, MaxUploadLen),
                 configured : BOOLEAN,
                 answer : Answers]
    /\ result = <<"none">>
    /\ storage = <<>>
    /\ now = 0
    /\ last = Call("init", <<>>, [raised |-> FALSE, expired |-> <<>>], TRUE, NoRec, {})
    /\ files = <<>>
    /\ cloud = <<>>
    /\ loads = 0
    /\ attempts = [i \in Ids |-> 0]
    /\ removed = {}
    /\ listA = <<>>
    /\ listB = <<>>
    /\ merged = <<"none">>

\* handleFileUpload up to the loop: validation
HandleFileUpload ==
    /\ result = <<"none">>
    /\ LET validFiles == SelectSeq(args.files, IsValidFile)
           invalid == SelectSeq(args.files, LAMBDA f : ~IsValidFile(f))
       IN  result' = <<"uploading",
                       [validFiles |-> validFiles,
                        i |-> 1,
                        errors |-> MapSeq(invalid, ValidationError),
                        queue |-> <<>>,
                        attempts |-> [k \in DOMAIN validFiles |-> 0],
                        handed |-> <<>>]>>
    /\ UNCHANGED <<args, storageVars, appVars, mergeVars>>

Uploading == result[1] = "uploading"

\* One pass of the loop body, through the await to the end of try or catch
UploadNext ==
    /\ Uploading
    /\ result[2].i <= Len(result[2].validFiles)
    /\ LET u == result[2]
           file == u.validFiles[u.i]
           p == Await(uploadFileToCloudinary(UploadCall(args.configured)),
                      args.answer)
       IN  IF p.state = "resolved"
           THEN \E sok \in SweepOutcomes(storage, now) :
                \E wok \in BOOLEAN :
                   LET fileInfo == NewFileInfo(file, <<now, u.i>>, now, p.value)
                       sv == saveFileToStorage(storage, fileInfo, now, sok, wok)
                   IN  /\ storage' = sv.store
                       /\ result' = <<"uploading", Completed(u, file, fileInfo, sv)>>
                       /\ files' = IF sv.raised THEN files
                                   ELSE <<fileInfo>> \o files
           ELSE /\ result' = <<"uploading", Failed(u, file, p.value)>>
                /\ UNCHANGED <<storage, files>>
    /\ UNCHANGED <<args, now, last, cloud, loads, attempts, removed, mergeVars>>

\* setTimeout(..., 2000) and setTimeout(..., 5000): the queue items of a
\* file name are removed after its upload completed or failed
RemoveFromQueue ==
    /\ Uploading
    /\ \E k \in DOMAIN result[2].queue :
          /\ result[2].queue[k].status # "uploading"
          /\ result' = <<"uploading",
                         [result[2] EXCEPT !.queue =
                            SelectSeq(@, LAMBDA q :
                               q.fileName # result[2].queue[k].fileName)]>>
    /\ UNCHANGED <<args, storageVars, appVars, mergeVars>>

NextUpload ==
    \/ Tick
    \/ HandleFileUpload
    \/ UploadNext
    \/ RemoveFromQueue

SpecUpload == InitUpload /\ [][NextUpload]_vars

\* The loop has ended
UploadFinished == Uploading /\ result[2].i > Len(result[2].validFiles)

\* The store would answer a request with a 200 and a parseable body
Answers200 ==
    /\ args.answer.event = "load"
    /\ args.answer.status = 200
    /\ args.answer.body # <<"garbled">>

\* C15: once FileUploader has uploaded a valid file of size s, with the
\* store answering 200 and a parseable body, a record with fileSize = s and
\* expiresAt = uploadTime + 24h is in the Local Index and was handed to
\* onUploadComplete, which puts it first in the displayed list.
C15_UploadedRecordPersisted ==
    (Uploading /\ args.configured /\ Answers200) =>
        \A k \in 1..(result[2].i - 1) :
           \E j \in DOMAIN result[2].handed :
              /\ result[2].handed[j].fileSize = result[2].validFiles[k].size
              /\ result[2].handed[j].expiresAt
                    = result[2].handed[j].uploadTime + Day
              /\ \E m \in DOMAIN storage : storage[m] = result[2].handed[j]
              /\ \E m \in DOMAIN files : files[m] = result[2].handed[j]

UploadErrors(u) == SelectSeq(u.errors, LAMBDA e : e[2] \notin {"size", "type"})

\* C16: every file that passed validation is attempted exactly once, in
\* order: a failure stops neither the loop nor a later file, is reported
\* once under that file's name, and no file is attempted a second time.
C16_EachFileAttemptedOnce ==
    Uploading =>
        LET u == result[2]
        IN  /\ \A k \in DOMAIN u.validFiles :
                  u.attempts[k] = IF k < u.i THEN 1 ELSE 0
            /\ u.i <= Len(u.validFiles) + 1
            /\ Len(UploadErrors(u)) + Len(u.handed) = u.i - 1
            /\ IsSubseq(MapSeq(UploadErrors(u), LAMBDA e : e[1]),
                        MapSeq(u.validFiles, LAMBDA f : f.name))

C16_Witness ==
    /\ UploadFinished
    /\ Len(result[2].validFiles) = 2
    /\ Len(UploadErrors(result[2])) = 2
    /\ result[2].attempts = <<1, 1>>

----------------------------------------------------------------------------
(* src/components/FileManager.tsx: applyFilters(fileList, currentFilters). *)
(* A string is a sequence of characters.  args is [fileList, filters];     *)
(* result is <<"none">> and then <<"done", the returned list>>.            *)

\* String.prototype.toLowerCase, by character
LowerChar(c) == IF c = "A" THEN "a" ELSE IF c = "B" THEN "b" ELSE c

toLowerCase(str) == [k \in DOMAIN str |-> LowerChar(str[k])]

\* String.prototype.includes
includes(str, sub) ==
    \E k \in 0..(Len(str) - Len(sub)) : SubSeq(str, k + 1, k + Len(sub)) = sub

\* UTF-16 code units
CharCode(c) ==
    IF c = "A" THEN 65 ELSE IF c = "B" THEN 66 ELSE IF c = "a" THEN 97 ELSE 98

\* a < b on strings: by code unit, a proper prefix first
RECURSIVE StrLess(_, _)
StrLess(a, b) ==
    IF b = <<>> THEN FALSE
    ELSE IF a = <<>> THEN TRUE
    ELSE IF Head(a) = Head(b) THEN StrLess(Tail(a), Tail(b))
    ELSE CharCode(Head(a)) < CharCode(Head(b))

\* Mutant of Matches: the access url is searched as well.
Matches_AnyField(file, searchLower) ==
    \/ includes(toLowerCase(file.fileName), searchLower)
    \/ includes(toLowerCase(file.cloudinaryUrl), searchLower)

\* file.fileName.toLowerCase().includes(searchLower)
Matches(file, searchLower) == includes(toLowerCase(file.fileName), searchLower)

\* aValue < bValue under the switch on sortBy
ValueLess(a, b, sortBy) ==
    IF sortBy = "fileName"
    THEN StrLess(toLowerCase(a.fileName), toLowerCase(b.fileName))
    ELSE IF sortBy = "fileSize" THEN a.fileSize < b.fileSize
    ELSE a.uploadTime < b.uploadTime

\* The comparator passed to filtered.sort
Compare(a, b, f) ==
    IF f.sortOrder = "asc"
    THEN IF ValueLess(a, b, f.sortBy) THEN -1
         ELSE IF ValueLess(b, a, f.sortBy) THEN 1 ELSE 0
    ELSE IF ValueLess(b, a, f.sortBy) THEN -1
         ELSE IF ValueLess(a, b, f.sortBy) THEN 1 ELSE 0

\* Array.prototype.sort is stable: r goes behind what does not sort after it
RECURSIVE InsertSorted(_, _, _)
InsertSorted(sorted, r, f) ==
    IF sorted = <<>> THEN <<r>>
    ELSE IF Compare(Head(sorted), r, f) <= 0
         THEN <<Head(sorted)>> \o InsertSorted(Tail(sorted), r, f)
    ELSE <<r>> \o sorted

RECURSIVE SortFiles(_, _)
SortFiles(list, f) ==
    IF list = <<>> THEN <<>>
    ELSE InsertSorted(SortFiles(SubSeq(list, 1, Len(list) - 1), f),
                      list[Len(list)], f)

applyFilters(fileList, f) ==
    SortFiles(IF f.searchTerm # <<>>
              THEN SelectSeq(fileList,
                             LAMBDA file : Matches(file, toLowerCase(f.searchTerm)))
              ELSE fileList,
              f)

FileNames == {<<"a", "b">>, <<"A">>, <<"b", "a">>}

SearchTerms == {<<>>, <<"a">>, <<"B">>, <<"a", "B">>}

FilterRecs ==
    {[fileName |-> n, fileSize |-> sz, uploadTime |-> up,
      cloudinaryUrl |-> <<"a", "b">>] :
        n \in FileNames, sz \in {1, 2}, up \in {1, 2}}

FilterOptions ==
    [searchTerm : SearchTerms,
     sortBy : {"fileName", "uploadTime", "fileSize"},
     sortOrder : {"asc", "desc"}]

InitFilter ==
    /\ args \in [fileList : SeqsUpTo(FilterRecs, MaxFilterLen),
                 filters : FilterOptions]
    /\ result = <<"none">>
    /\ storage = <<>>
    /\ now = 0
    /\ last = Call("init", <<>>, [raised |-> FALSE, expired |-> <<>>], TRUE, NoRec, {})
    /\ files = <<>>
    /\ cloud = <<>>
    /\ loads = 0
    /\ attempts = [i \in Ids |-> 0]
    /\ removed = {}
    /\ listA = <<>>
    /\ listB = <<>>
    /\ merged = <<"none">>

ApplyFilters ==
    /\ result = <<"none">>
    /\ result' = <<"done", applyFilters(args.fileList, args.filters)>>
    /\ UNCHANGED <<args, storageVars, appVars, mergeVars>>

NextFilter == ApplyFilters

SpecFilter == InitFilter /\ [][NextFilter]_vars

Count(list, r) == Cardinality({k \in DOMAIN list : list[k] = r})

\* Case-insensitive containment, stated without toLowerCase: some stretch of
\* the name equals the term character by character up to case
SameLetter(c, d) ==
    \/ c = d
    \/ {c, d} = {"a", "A"}
    \/ {c, d} = {"b", "B"}

ContainsIgnoringCase(name, term) ==
    \E k \in 0..(Len(name) - Len(term)) :
       \A j \in 1..Len(term) : SameLetter(name[k + j], term[j])

\* C17: applyFilters returns exactly the input records whose fileName
\* contains searchTerm ignoring case, each as often as it is in the input;
\* with an empty searchTerm it returns every input record; the other fields
\* play no part in the match.
C17_FilterByFileName ==
    result[1] = "done" =>
        \A r \in FilterRecs :
           Count(result[2], r) =
              IF ContainsIgnoringCase(r.fileName, args.filters.searchTerm)
              THEN Count(args.fileList, r)
              ELSE 0

\* The term "B" keeps "ba", found through the lower case, and drops "A",
\* whose url holds a "b"
C17_Witness ==
    /\ result[1] = "done"
    /\ args.filters.searchTerm = <<"B">>
    /\ Len(args.fileList) = 2
    /\ args.fileList[1].fileName = <<"A">>
    /\ args.fileList[2].fileName = <<"b", "a">>
    /\ Len(result[2]) = 1

----------------------------------------------------------------------------
(* src/unnamed/part_007: generateShareLink(files), parseShareLink(param).  *)
(* A string is a sequence of UTF-16 code units; a time is written as one   *)
(* digit, the empty string standing for a missing time.  JSON text is      *)
(* reduced to its delimiters: every field is followed by a comma, every    *)
(* record by a closing brace; the keys, fixed by the code, are left out.   *)
(* args is [files]; result is <<"none">>, then <<"link", g>> with g the    *)
(* outcome of generateShareLink, then <<"parsed", g, p>> with p the        *)
(* outcome of parseShareLink on g's share parameter.                       *)

ShareRec(id, name, up, exp, size, url, type, pid) ==
    [id |-> id, fileName |-> name, uploadTime |-> up, expiresAt |-> exp,
     fileSize |-> size, cloudinaryUrl |-> url, fileType |-> type,
     publicId |-> pid]

Digit(n) == <<48 + n>>

TimeText(t) == IF t = 0 THEN <<>> ELSE Digit(t)

TextTime(str) == IF str = <<>> THEN 0 ELSE str[1] - 48

RECURSIVE Flatten(_)
Flatten(ss) == IF ss = <<>> THEN <<>> ELSE Head(ss) \o Flatten(Tail(ss))

\* The object literal of files.map, in JSON
RecText(f) ==
    f.id \o <<44>> \o f.fileName \o <<44>> \o TimeText(f.uploadTime) \o <<44>>
      \o TimeText(f.expiresAt) \o <<44>> \o Digit(f.fileSize) \o <<44>>
      \o f.cloudinaryUrl \o <<44>> \o f.fileType \o <<44>> \o f.publicId
      \o <<44, 125>>

\* JSON.stringify(shareData): the timestamp, then the files
stringify(t, fs) == Digit(t) \o <<44>> \o Flatten(MapSeq(fs, RecText))

\* The pieces of text that end with sep, without it
RECURSIVE SplitOn(_, _, _)
SplitOn(text, sep, piece) ==
    IF text = <<>> THEN <<>>
    ELSE IF Head(text) = sep
         THEN <<piece>> \o SplitOn(Tail(text), sep, <<>>)
    ELSE SplitOn(Tail(text), sep, Append(piece, Head(text)))

TextRec(text) ==
    LET fields == SplitOn(text, 44, <<>>)
    IN  ShareRec(fields[1], fields[2], TextTime(fields[3]), TextTime(fields[4]),
                 TextTime(fields[5]), fields[6], fields[7], fields[8])

\* JSON.parse(decoded): [timestamp, files]
parse(text) ==
    LET head == SplitOn(text, 44, <<>>)[1]
    IN  [timestamp |-> TextTime(head),
         files |-> MapSeq(SplitOn(SubSeq(text, Len(head) + 2, Len(text)),
                                  125, <<>>),
                          TextRec)]

\* btoa: base64 digits 0..63 and 64 for the padding '='; it throws on a
\* code unit above 255
RECURSIVE Base64(_)
Base64(bs) ==
    IF bs = <<>> THEN <<>>
    ELSE IF Len(bs) = 1
         THEN <<bs[1] \div 4, (bs[1] % 4) * 16, 64, 64>>
    ELSE IF Len(bs) = 2
         THEN <<bs[1] \div 4, (bs[1] % 4) * 16 + (bs[2] \div 16),
                (bs[2] % 16) * 4, 64>>
    ELSE <<bs[1] \div 4, (bs[1] % 4) * 16 + (bs[2] \div 16),
           (bs[2] % 16) * 4 + (bs[3] \div 64), bs[3] % 64>>
           \o Base64(SubSeq(bs, 4, Len(bs)))

btoa(text) ==
    IF \E k \in DOMAIN text : text[k] > 255
    THEN [raised |-> TRUE, digits |-> <<>>]
    ELSE [raised |-> FALSE, digits |-> Base64(text)]

\* atob
RECURSIVE atob(_)
atob(ds) ==
    IF Len(ds) < 4 THEN <<>>
    ELSE (IF ds[3] = 64 THEN <<ds[1] * 4 + (ds[2] \div 16)>>
          ELSE IF ds[4] = 64
               THEN <<ds[1] * 4 + (ds[2] \div 16),
                      (ds[2] % 16) * 16 + (ds[3] \div 4)>>
          ELSE <<ds[1] * 4 + (ds[2] \div 16),
                 (ds[2] % 16) * 16 + (ds[3] \div 4),
                 (ds[3] % 4) * 64 + ds[4]>>)
         \o atob(SubSeq(ds, 5, Len(ds)))

\* generateShareLink(files) at time t: param is the share parameter
generateShareLink(fs, t) ==
    LET encoded == btoa(stringify(t, fs))
    IN  [raised |-> encoded.raised, param |-> encoded.digits, timestamp |-> t]

\* The defaults of the map in parseShareLink
Defaults(f, t) ==
    ShareRec(f.id, f.fileName,
             IF f.uploadTime = 0 THEN t ELSE f.uploadTime,
             IF f.expiresAt = 0 THEN t + Day ELSE f.expiresAt,
             f.fileSize,
             f.cloudinaryUrl,
             IF f.fileType = <<>> THEN <<111>> ELSE f.fileType,
             f.publicId)

\* parseShareLink(shareParam) at time t; the fields written by
\* generateShareLink are strings, which is what the filter asks for
parseShareLink(param, t) ==
    IF Len(param) % 4 # 0
    THEN [raised |-> TRUE, files |-> <<>>]
    ELSE [raised |-> FALSE,
          files |-> MapSeq(parse(atob(param)).files, LAMBDA f : Defaults(f, t))]

\* File names "A" and, outside Latin-1, U+6587; MIME types "" (what
\* File.type is for an unknown type) and "p"
ShareRecs ==
    {ShareRec(id, name, 1, exp, 2, <<117>>, type, <<113>>) :
        id \in {<<97>>, <<98>>}, name \in {<<65>>, <<25991>>},
        exp \in {1, 2}, type \in {<<>>, <<112>>}}

InitShare ==
    /\ args \in [files : SeqsUpTo(ShareRecs, MaxShareLen)]
    /\ result = <<"none">>
    /\ storage = <<>>
    /\ now = 0
    /\ last = Call("init", <<>>, [raised |-> FALSE, expired |-> <<>>], TRUE, NoRec, {})
    /\ files = <<>>
    /\ cloud = <<>>
    /\ loads = 0
    /\ attempts = [i \in Ids |-> 0]
    /\ removed = {}
    /\ listA = <<>>
    /\ listB = <<>>
    /\ merged = <<"none">>

GenerateShareLink ==
    /\ result = <<"none">>
    /\ result' = <<"link", generateShareLink(args.files, now)>>
    /\ UNCHANGED <<args, storageVars, appVars, mergeVars>>

ParseShareLink ==
    /\ result[1] = "link"
    /\ ~result[2].raised
    /\ result' = <<"parsed", result[2], parseShareLink(result[2].param, now)>>
    /\ UNCHANGED <<args, storageVars, appVars, mergeVars>>

NextShare ==
    \/ Tick
    \/ GenerateShareLink
    \/ ParseShareLink

SpecShare == InitShare /\ [][NextShare]_vars

\* C18: generateShareLink yields a share parameter for every list, and
\* parseShareLink applied to it returns the same records in the same order
\* with all eight fields equal.
C18_ShareRoundTrip ==
    /\ result[1] = "link" => ~result[2].raised
    /\ result[1] = "parsed" =>
          (~result[3].raised /\ result[3].files = args.files)

\* C19: the snapshot encoded in a share link holds no record whose
\* expiresAt is at or before the time of generation.
C19_NoExpiredInShareLink ==
    (result[1] \in {"link", "parsed"} /\ ~result[2].raised) =>
        LET snapshot == parse(atob(result[2].param))
        IN  \A k \in DOMAIN snapshot.files :
               snapshot.files[k].expiresAt > snapshot.timestamp

----------------------------------------------------------------------------
(* The list displayed by the cloud-first FileManager after a load *)

\* A step that ends a loadFiles call: the only one to lower loads
LoadCompletes == loads' = loads - 1

\* C20: immediately after loadFiles completes, on the initial load, the
\* timer or a refresh, the displayed list holds no record with
\* expiresAt <= now, whether it came from the remote index or the Local
\* Index.
C20_NoExpiredDisplayedAfterLoad ==
    [][LoadCompletes => \A k \in DOMAIN files' : files'[k].expiresAt > now']_vars

----------------------------------------------------------------------------
(* src/components/FileManager.tsx: handleDeleteFile and handleBatchDelete   *)
(* from the call to the finally block, with the isDeleting guard.  result   *)
(* is <<"none">> while isDeleting is false and <<"deleting", d>> from       *)
(* setIsDeleting(true) to setIsDeleting(false), d = [op, ids] being the     *)
(* call in progress.  args is [calls, remote, done]: the number of calls    *)
(* of the two handlers, the number of deleteFileFromCloudinary calls they   *)
(* made, and the ids of the last call that ran to its end.  The render      *)
(* that follows setIsDeleting(true) comes before any later event, so a      *)
(* later call reads the current isDeleting.                                 *)

isDeleting == result[1] = "deleting"

\* Mutant of MayDelete: no guard.
MayDelete_Unguarded(deleting) == TRUE

\* if (isDeleting) return
MayDelete(deleting) == ~deleting

\* The entries handed to the remote client: the displayed files named by ids
RemoteEntries(fs, ids) ==
    MapSeq(SelectSeq(fs, LAMBDA f : f.id \in ids),
           LAMBDA f : [publicId |-> f.id, fails |-> FALSE])

InitDelete ==
    /\ cloud \in SeqsUpTo(CloudResources, MaxCloudLen)
    /\ storage = <<>>
    /\ now = 1
    /\ last = Call("init", <<>>, [raised |-> FALSE, expired |-> <<>>], TRUE, NoRec, {})
    /\ files = <<>>
    /\ loads = 1
    /\ attempts = [i \in Ids |-> 0]
    /\ removed = {}
    /\ listA = <<>>
    /\ listB = <<>>
    /\ merged = <<"none">>
    /\ args = [calls |-> 0, remote |-> 0, done |-> {}]
    /\ result = <<"none">>

\* A call of handleDeleteFile or handleBatchDelete up to its await: it
\* returns at once under the guard, else sets isDeleting and calls the
\* remote client for the displayed files it names
DeleteCall(op, ids) ==
    /\ args.calls < MaxDeleteCalls
    /\ IF MayDelete(isDeleting)
       THEN /\ result' = <<"deleting", [op |-> op, ids |-> ids]>>
            /\ args' = [args EXCEPT
                          !.calls = @ + 1,
                          !.remote = @ + batchDeleteFilesFromCloudinary(
                                            RemoteEntries(files, ids)).successCount]
       ELSE /\ result' = result
            /\ args' = [args EXCEPT !.calls = @ + 1]
    /\ UNCHANGED <<storageVars, appVars, mergeVars>>

DeleteFileCall == \E id \in IdsOf(files) : DeleteCall("delete", {id})

BatchDeleteCall ==
    \E ids \in (SUBSET IdsOf(files)) \ {{}} : DeleteCall("batchDelete", ids)

\* The rest of the handler, after the await: the storage call, setFiles,
\* the toast, and setIsDeleting(false) in the finally block
DeleteFinish ==
    /\ isDeleting
    /\ IF result[2].op = "delete"
       THEN \E id \in result[2].ids :
               Handled(handleDeleteFile(storage, files, id, now))
       ELSE Handled(handleBatchDelete(storage, files, result[2].ids, now))
    /\ result' = <<"none">>
    /\ args' = [args EXCEPT !.done = result[2].ids]
    /\ UNCHANGED <<now, last, cloud, loads, removed, mergeVars>>

NextDelete ==
    \/ AppTick
    \/ LoadFinish
    \/ TimerTick
    \/ Refresh
    \/ DeleteFileCall
    \/ BatchDeleteCall
    \/ DeleteFinish

SpecDelete == InitDelete /\ [][NextDelete]_vars

\* A step that ends a delete handler
DeleteCompletes == isDeleting /\ result'[1] = "none"

CallWhileDeleting == isDeleting /\ args'.calls = args.calls + 1

\* C28: a handleDeleteFile or handleBatchDelete call made while a delete is
\* in progress returns without calling the remote client and without
\* changing the Local Index, the displayed list or the delete in progress.
C28_OneDeleteAtATime ==
    [][CallWhileDeleting =>
         /\ args'.remote = args.remote
         /\ UNCHANGED <<storage, files, attempts, result>>]_vars

C28_Witness ==
    /\ isDeleting
    /\ args.calls = 2
    /\ args.remote = 1
    /\ result[2].op = "delete"

----------------------------------------------------------------------------
(* loadFiles of the cloud-first FileManager over a Local Index that holds   *)
(* records from earlier sessions.  result is <<"none">> and then            *)
(* <<"loaded", [local, remote, wok]>>: the unexpired records of the Local   *)
(* Index and the list getFilesFromCloud returned (empty when the request    *)
(* failed) at the time of the load, and whether writes that add to the      *)
(* index succeeded.                                                         *)

\* Records persisted by an earlier session, not expired at time 1
LocalRecs == {Rec(id, up, up + Day, 2, TRUE) : id \in Ids, up \in {1, 2}}

LocalStores == {s \in SeqsUpTo(LocalRecs, MaxLen) : UniqueIds(s)}

InitLoad ==
    /\ storage \in LocalStores
    /\ cloud \in SeqsUpTo(CloudResources, MaxCloudLen)
    /\ now = 1
    /\ last = Call("init", <<>>, [raised |-> FALSE, expired |-> <<>>], TRUE, NoRec, {})
    /\ files = <<>>
    /\ loads = 1
    /\ attempts = [i \in Ids |-> 0]
    /\ removed = {}
    /\ listA = <<>>
    /\ listB = <<>>
    /\ merged = <<"none">>
    /\ args = <<>>
    /\ result = <<"none">>

\* One loadFiles call, from its start to setFiles
LoadOnce ==
    /\ loads > 0
    /\ \E conn, listed, wok \in BOOLEAN :
          /\ Handled(loadFiles(storage, cloud, conn, listed, now, wok))
          /\ result' = <<"loaded",
                         [local |-> getStoredFiles(storage, now, TRUE).valid,
                          remote |-> IF listed THEN getFilesFromCloud(cloud, now)
                                     ELSE <<>>,
                          wok |-> wok]>>
    /\ loads' = loads - 1
    /\ UNCHANGED <<args, now, last, cloud, removed, mergeVars>>

NextLoad ==
    \/ AppTick
    \/ LoadOnce
    \/ Refresh

SpecLoad == InitLoad /\ [][NextLoad]_vars

\* C23: when loadFiles obtained a non-empty remote index (and no write to
\* the Local Index failed), the displayed list is mergeFileLists(local,
\* remote): every unexpired local record and every remote record once, the
\* later uploadTime kept for an id in both.
C23_DisplayedIsMerge ==
    (result[1] = "loaded" /\ result[2].remote # <<>> /\ result[2].wok) =>
        files = mergeFileLists(result[2].local, result[2].remote)

----------------------------------------------------------------------------
(* The cloud-first FileManager mounted over a Local Index that holds the    *)
(* records of earlier uploads: the initial load, the one-minute timer, user *)
(* refreshes and deletes, interleaved.  A load in flight counts in loads;   *)
(* its requests settle, and it runs from there to setFiles, in LoadFinish.  *)
(* handleUploadComplete has no step here: FileUploader calls               *)
(* onUploadComplete only after uploadFileToCloudinary resolved, which its   *)
(* call never does (UploadCall).                                            *)

SpecSession == InitLoad /\ [][NextApp]_vars

\* The unexpired records of the Local Index that no delete handler removed
Kept == SelectSeq(Records(storage),
                  LAMBDA r : r.expiresAt > now /\ r.id \notin removed)

\* C24: once every loadFiles in flight has completed, whatever the
\* interleaving of timer loads, refreshes and deletes, the displayed list
\* holds every unexpired record that was uploaded and not deleted.
C24_DisplayedHoldsEveryRecord ==
    loads = 0 => IdsOf(Kept) \subseteq IdsOf(files)

----------------------------------------------------------------------------
(* src/lib/cloudinary.ts: batchDeleteFilesFromCloudinary as a process.      *)
(* args is the list of entries.  result is <<"none">> before the call,      *)
(* <<"running", b>> during it and <<"returned", b>> after, b = [next,       *)
(* inFlight, settled, results]: the index of the first entry of the chunks  *)
(* not yet mapped, the indices of the entries whose                         *)
(* deleteFileFromCloudinary promise is pending, those whose promise has     *)
(* settled, and the results object.                                         *)

\* Mutant of ChunkEnd: one chunk holds every entry.
ChunkEnd_Unbounded(next, n) == n

\* files.slice(i, i + concurrencyLimit): the index of the chunk's last entry
ChunkEnd(next, n) == Min(next + concurrencyLimit - 1, n)

ChunkEntries == {[publicId |-> "p", fails |-> f] : f \in BOOLEAN}

InitChunks ==
    /\ args \in SeqsUpTo(ChunkEntries, MaxBatchLen)
    /\ result = <<"none">>
    /\ storage = <<>>
    /\ now = 1
    /\ last = Call("init", <<>>, [raised |-> FALSE, expired |-> <<>>], TRUE, NoRec, {})
    /\ files = <<>>
    /\ cloud = <<>>
    /\ loads = 0
    /\ attempts = [i \in Ids |-> 0]
    /\ removed = {}
    /\ listA = <<>>
    /\ listB = <<>>
    /\ merged = <<"none">>

\* The call up to the loop over the chunks
BatchStart ==
    /\ result = <<"none">>
    /\ result' = <<"running",
                   [next |-> 1, inFlight |-> {}, settled |-> {},
                    results |-> [successCount |-> 0, failedCount |-> 0,
                                 errors |-> <<>>]]>>
    /\ UNCHANGED <<args, storageVars, appVars, mergeVars>>

Running == result[1] = "running"

\* chunk.map(async (file) => ...): every delete of the chunk is started;
\* the loop is at this point at the call and after each await Promise.all
ChunkStart ==
    /\ Running
    /\ result[2].inFlight = {}
    /\ result[2].next <= Len(args)
    /\ result' = <<"running",
                   [result[2] EXCEPT
                      !.inFlight = result[2].next..ChunkEnd(result[2].next, Len(args)),
                      !.next = ChunkEnd(result[2].next, Len(args)) + 1]>>
    /\ UNCHANGED <<args, storageVars, appVars, mergeVars>>

\* One pending delete settles: the rest of its async function runs
DeleteSettles ==
    /\ Running
    /\ \E i \in result[2].inFlight :
          result' = <<"running",
                      [result[2] EXCEPT
                         !.inFlight = @ \ {i},
                         !.settled = @ \cup {i},
                         !.results = DeleteEntry(@, args[i])]>>
    /\ UNCHANGED <<args, storageVars, appVars, mergeVars>>

\* return results
BatchReturn ==
    /\ Running
    /\ result[2].inFlight = {}
    /\ result[2].next > Len(args)
    /\ result' = <<"returned", result[2]>>
    /\ UNCHANGED <<args, storageVars, appVars, mergeVars>>

NextChunks ==
    \/ BatchStart
    \/ ChunkStart
    \/ DeleteSettles
    \/ BatchReturn

SpecChunks == InitChunks /\ [][NextChunks]_vars

\* The consecutive group of five that entry i belongs to
GroupOf(i) == (i - 1) \div concurrencyLimit

\* C26: at no time are more than 5 deletes in flight, the deletes in flight
\* belong to one consecutive group of at most 5, and every delete of an
\* earlier group has settled before one of a later group is started.
C26_GroupsOfFiveInSequence ==
    Running =>
        /\ Cardinality(result[2].inFlight) <= concurrencyLimit
        /\ \A i, j \in result[2].inFlight : GroupOf(i) = GroupOf(j)
        /\ \A i \in result[2].inFlight \cup result[2].settled :
              \A j \in 1..Len(args) :
                 GroupOf(j) < GroupOf(i) => j \in result[2].settled

\* The second group is in flight after the five deletes of the first settled
C26_Witness ==
    /\ Running
    /\ Len(args) = 7
    /\ result[2].settled = 1..5
    /\ result[2].inFlight = {6, 7}
    /\ result[2].results.failedCount = 2

\* ---------------------------------------------------------------------
\* CountdownTimer inside UploadedFileCard: the effect, its one-second
\* interval and the delete wired to onExpired. Time is counted in seconds.
\* args holds the props, result the component: <<phase, state>>.
\* ---------------------------------------------------------------------

\* hours, minutes and seconds of a difference of d seconds
TimeLeft(d) ==
    [hours |-> d \div 3600, minutes |-> (d % 3600) \div 60, seconds |-> d % 60]

\* onExpired={() => onDelete?.(file.id)}: one delete request for the record
onExpired(c, id) == [c EXCEPT !.requests = Append(@, id)]

\* updateCountdown of a timer with props p and state c at time t
updateCountdown(p, c, t) ==
    IF p.expiresAt - t <= 0
    THEN onExpired([c EXCEPT !.isExpired = TRUE, !.timeLeft = TimeLeft(0)], p.fileId)
    ELSE [c EXCEPT !.timeLeft = TimeLeft(p.expiresAt - t)]

\* useState initial values; no delete has been requested
CountdownState == [isExpired |-> FALSE, timeLeft |-> TimeLeft(0), requests |-> <<>>]

CountdownProps == [expiresAt : 0..(MaxSeconds + 1), fileId : Ids]

\* The component after its first render: the effect has run updateCountdown
\* once and has set the interval
InitCountdown ==
    /\ args \in CountdownProps
    /\ now \in 0..1
    /\ result = <<"mounted", updateCountdown(args, CountdownState, now)>>
    /\ storage = <<>>
    /\ last = Call("init", <<>>, [raised |-> FALSE, expired |-> <<>>], TRUE, NoRec, {})
    /\ files = <<>>
    /\ cloud = <<>>
    /\ loads = 0
    /\ attempts = [i \in Ids |-> 0]
    /\ removed = {}
    /\ listA = <<>>
    /\ listB = <<>>
    /\ merged = <<"none">>

Mounted == result[1] = "mounted"

\* setInterval(updateCountdown, 1000): a second passes and the interval
\* fires; nothing clears the interval when the timer has expired
IntervalFires ==
    /\ Mounted
    /\ now < MaxSeconds
    /\ Len(result[2].requests) < MaxRequests
    /\ now' = now + 1
    /\ result' = <<"mounted", updateCountdown(args, result[2], now + 1)>>
    /\ UNCHANGED <<args, storage, last, appVars, mergeVars>>

\* The card renders again: onExpired is a new arrow function, so the effect
\* is cleaned up and run again, which calls updateCountdown at once
Rerender ==
    /\ Mounted
    /\ Len(result[2].requests) < MaxRequests
    /\ result' = <<"mounted", updateCountdown(args, result[2], now)>>
    /\ UNCHANGED <<args, storageVars, appVars, mergeVars>>

\* return () => clearInterval(interval)
Unmount ==
    /\ Mounted
    /\ result' = <<"unmounted", result[2]>>
    /\ UNCHANGED <<args, storageVars, appVars, mergeVars>>

NextCountdown ==
    \/ IntervalFires
    \/ Rerender
    \/ Unmount

SpecCountdown == InitCountdown /\ [][NextCountdown]_vars

\* C29: a mounted CountdownTimer with a fixed expiresAt invokes onExpired at
\* most once after the expiry time is reached, so the delete wired to it is
\* requested at most once for the record.
C29_ExpiredOnce == Len(result[2].requests) <= 1

\* ---------------------------------------------------------------------
\* startAutoSync: the immediate sync and the 30-second interval of one
\* invocation. listA is the localFiles argument the closure holds, listB the
\* files of the shared index ('cloud-file-index'), merged the arguments of
\* the last onUpdate call, result <<phase, state>> of the invocation.
\* ---------------------------------------------------------------------

\* downloadFileIndex: the entries of the stored index that pass its filter
downloadFileIndex(index) == SelectSeq(index, LAMBDA f : f.wf)

\* uploadFileIndex: the index after the call; a write that throws is caught
\* and leaves the stored index as it was
uploadFileIndex(index, fs, uok) == IF uok THEN fs ELSE index

\* syncFiles(localFiles) against the stored index. uok: the write of the
\* index succeeds; vok: the write of 'local-index-version' succeeds, and a
\* throw there is caught and answers with the local files
syncFiles(localFiles, index, uok, vok) ==
    LET cloudFiles    == downloadFileIndex(index)
        mergedFiles   == mergeFileLists(localFiles, cloudFiles)
        newFilesCount == Len(mergedFiles) - Len(localFiles)
        stored        == IF localFiles # <<>>
                         THEN uploadFileIndex(index, mergedFiles, uok)
                         ELSE index
    IN  IF vok
        THEN [files |-> mergedFiles, hasNewFiles |-> newFilesCount > 0,
              syncedCount |-> newFilesCount, index |-> stored, versioned |-> TRUE]
        ELSE [files |-> localFiles, hasNewFiles |-> FALSE,
              syncedCount |-> 0, index |-> stored, versioned |-> FALSE]

\* The state of one invocation: ticks run, the counts handed to onUpdate, the
\* stored index as the last reporting tick left it, the version markers
AutoSyncState ==
    [ticks |-> 0, updates |-> <<>>, reported |-> FALSE, seen |-> <<>>,
     localVersion |-> 0]

\* checkAndSync: one sync; onUpdate is called when it found new files
checkAndSync(c, localFiles, index, uok, vok) ==
    LET r == syncFiles(localFiles, index, uok, vok)
        d == [c EXCEPT !.ticks = @ + 1,
                       !.localVersion = IF r.versioned THEN c.ticks + 1 ELSE @]
    IN  [index  |-> r.index,
         called |-> r.hasNewFiles,
         files  |-> r.files,
         state  |-> IF r.hasNewFiles
                    THEN [d EXCEPT !.updates = Append(@, r.syncedCount),
                                   !.reported = TRUE,
                                   !.seen = r.index]
                    ELSE d]

SyncLists == SeqsUpTo(MergeRecs, MaxSyncLen)

\* startAutoSync(localFiles, onUpdate) has been called; its first
\* checkAndSync has not run yet
InitAutoSync ==
    /\ listA \in SyncLists
    /\ listB \in SyncLists
    /\ merged = <<"none", <<>>>>
    /\ result = <<"started", AutoSyncState>>
    /\ args = <<>>
    /\ storage = <<>>
    /\ now = 1
    /\ last = Call("init", <<>>, [raised |-> FALSE, expired |-> <<>>], TRUE, NoRec, {})
    /\ files = <<>>
    /\ cloud = <<>>
    /\ loads = 0
    /\ attempts = [i \in Ids |-> 0]
    /\ removed = {}

Syncing == result[1] = "started"

\* checkAndSync() at once, then setInterval(checkAndSync, 30000)
SyncTick ==
    /\ Syncing
    /\ result[2].ticks < MaxSyncTicks
    /\ \E uok, vok \in BOOLEAN :
          LET r == checkAndSync(result[2], listA, listB, uok, vok)
          IN  /\ listB' = r.index
              /\ result' = <<"started", r.state>>
              /\ merged' = IF r.called THEN <<"updated", r.files>> ELSE merged
    /\ UNCHANGED <<listA, args, storageVars, appVars>>

\* Another writer replaces the shared index between two ticks
IndexChanges ==
    /\ Syncing
    /\ result[2].ticks < MaxSyncTicks
    /\ \E index \in SyncLists : index # listB /\ listB' = index
    /\ UNCHANGED <<listA, merged, callVars, storageVars, appVars>>

\* The cleanup function: clearInterval(intervalId)
StopAutoSync ==
    /\ Syncing
    /\ result' = <<"stopped", result[2]>>
    /\ UNCHANGED <<args, mergeVars, storageVars, appVars>>

NextAutoSync ==
    \/ SyncTick
    \/ IndexChanges
    \/ StopAutoSync

SpecAutoSync == InitAutoSync /\ [][NextAutoSync]_vars

\* A tick of the invocation runs in this step
TickRuns == result'[2].ticks = result[2].ticks + 1

\* C30: for one startAutoSync invocation, once a tick has reported new files
\* through onUpdate, a later tick that finds the shared index as that tick
\* left it does not invoke onUpdate again.
C30_SyncIdempotent ==
    [][(TickRuns /\ result[2].reported /\ listB = result[2].seen)
          => result'[2].updates = result[2].updates]_vars

====
